---------------------------- MODULE Spec2Model ----------------------------
(***************************************************************************)
(* WeaveFeed accounts microservice: the generic microservice lifecycle     *)
(* (BaseMicroserviceApplication: initialise / run / stop), the Quart       *)
(* before-serving / after-serving hooks of the accounts service and the    *)
(* retrying database pool bootstrap (create_db_pool).                      *)
(*                                                                         *)
(* Scheduling is asyncio's: one coroutine runs at a time and the others    *)
(* run only while it is suspended in an await that really suspends.  The   *)
(* variable "running" names the coroutine that holds the event loop.  The  *)
(* hooks of the one subclass, Application, decide which awaits suspend:    *)
(* _initialise and _shutdown contain no await, _main_loop awaits           *)
(* asyncio.sleep(0.1).                                                     *)
(***************************************************************************)
EXTENDS Integers, Sequences, FiniteSets, TLC

\* Bounds of the model.
MaxCalls == 4      \* lifecycle API calls made by a direct caller
MaxSteps == 2      \* _main_loop steps begun by one process
MaxRetries == 3    \* largest retries argument given to create_db_pool directly
MaxReqs == 2       \* requests received by one process
PoolSize == 1      \* connections the pool hands out (max_size)
MaxItems == 2      \* items declared by a configuration layout

\* Program constants.
DefaultRetries == 5     \* create_db_pool(config, retries=5, ...)
BaseDelay == 10         \* base_delay = 1.0 s, in units of 0.1 s

VARIABLES
    is_initialised,     \* BaseMicroserviceApplication._is_initialised
    shutdown_event,     \* _shutdown_event.is_set()
    shutdown_complete,  \* _shutdown_complete.is_set()
    pc,                 \* [main, task]: position of the caller of initialise()/stop() and of the run() coroutine
    call,               \* the lifecycle method the main context is inside: "none", "initialise", "stop"
    running,            \* the coroutine holding the event loop: "none", "main", "task", "hook"
    init_result,        \* what the last initialise() returned: "none", "true", "false"
    run_result,         \* how the run() coroutine ended: "none", "returned", "cancelled", "raised"
    must_cancel,        \* Task.cancel() was requested and CancelledError is not yet thrown into run()
    pending,            \* the exception that leaves run() after its finally block: "none", "cancel", "interrupt"
    exited,             \* os._exit(1) was called
    \* history of the execution
    calls,              \* lifecycle API calls made so far by the direct caller
    setup_calls,        \* number of _initialise() invocations
    teardown_calls,     \* number of _shutdown() invocations
    stop_calls,         \* number of stop() invocations
    steps,              \* number of _main_loop() steps begun
    delivered,          \* where CancelledError was thrown into run(): "none", "start", "main_loop", "sleep"
    interrupted,        \* KeyboardInterrupt was raised inside the run loop of the current run()
    entry,              \* what held when initialise() was entered, and what _initialise() returned
    stops_at_throw,     \* stop_calls when an exception was last thrown into run()
    \* the accounts service (services/accounts/__init__.py)
    spc,                \* position of the before-serving hook startup()
    hpc,                \* position of the after-serving hook shutdown()
    db_pool,            \* app.db_pool: "none", "open", "closed"
    pool_closes,        \* number of db_pool.close() calls
    \* create_db_pool
    bpc,                \* position inside create_db_pool
    retries,            \* its retries argument
    attempt,            \* loop variable, 1-indexed
    attempts_made,      \* asyncpg.create_pool calls made
    waits,              \* asyncio.sleep(wait_time) calls made
    last_wait,          \* wait_time of the last sleep, in units of 0.1 s
    last_outcome,       \* outcome of the last connection attempt
    cancel_calls,       \* cancel_background_tasks() calls made by create_db_pool
    pool,               \* the pool create_db_pool returned: 0 for none, k for the one attempt k produced
    \* the requests served (before_request / view function / after_request)
    rpc,                \* position of each request: "new", "acquiring", "handler", "releasing", "done"
    route,              \* how the view function of each request was marked
    g_db,               \* g.db of each request: 0 while unset, else the connection
    holder,             \* for each pooled connection the request it is checked out to, 0 if free
    response,           \* what each request was answered: "none", "handler", "503", "500"
    acquire_outcome,    \* how db_pool.acquire ended for each request: "none", "ok", "TimeoutError", "error"
    released,           \* the connections each request passed to db_pool.release, in order
    after_503,          \* the request arrived after some request had been answered 503
    \* the shared StateObject and the coroutines that use it
    service_health,             \* StateObject.service_health: "none", "partial", "fully_degraded"
    service_health_state_str,   \* StateObject.service_health_state_str
    database_health,            \* StateObject.database_health
    database_health_state_str,  \* StateObject.database_health_state_str
    op,                 \* the operation each coroutine executes
    opc,                \* its position
    upd,                \* the (component, level, detail) update it is about to write
    cont,               \* where it goes on after the update
    stamp,              \* serial number of the update that last wrote each of the four fields
    updates,            \* updates begun so far
    seen,               \* what health() read and reported, per coroutine
    store_outcome,      \* how the last await of the store ended in each coroutine
    before,             \* the health state when the await ended after which check_user_exists or get_by_email_or_username is writing
    ret,                \* what the operation that await belongs to returns
    \* the configuration resolver (Configuration)
    cpc,                    \* position of the resolver: "unused", "configured", "reading", "read", "done", "failed"
    config_file,            \* Configuration._config_file is set (a path was given)
    config_file_required,   \* Configuration._config_file_required
    file_status,            \* what parser.read finds at that path: "none" without a path, "readable", "unopenable", or the error it raises
    has_config_file,        \* Configuration._has_config_file
    layout_len,             \* number of items the layout declares
    cfg_index,              \* items of the layout _read_configuration has gone through
    cur,                    \* the item last read: its declaration and what each source held for it
    config_items,           \* Configuration._config_items, by position of the item in the layout
    cfg_error,              \* the exception process_config raised
    got,                    \* the last get_entry call and how it ended
    \* Application._initialise
    setup,                  \* what the last _initialise() found in the environment and how it ended
    routes_registered,      \* register_blueprint(create_routes(...)) has been executed
    \* the users table and the signup and login requests
    users,                  \* the rows of the users table
    next_id,                \* the next value uuid.uuid4() returns, as a serial number
    acct                    \* per coroutine: the signup, create_user or login it executes, its position and its answer

lifeVars == <<is_initialised, shutdown_event, shutdown_complete>>
ctrlVars == <<pc, call, running, init_result, run_result, must_cancel, pending, exited>>
histVars == <<calls, setup_calls, teardown_calls, stop_calls, steps, delivered, interrupted, entry, stops_at_throw>>
hookVars == <<spc, hpc, db_pool, pool_closes>>
bootVars == <<bpc, retries, attempt, attempts_made, waits, last_wait, last_outcome, cancel_calls, pool>>
reqVars == <<rpc, route, g_db, holder, response, acquire_outcome, released, after_503>>
stateVars == <<service_health, service_health_state_str, database_health, database_health_state_str>>
healthVars == <<stateVars, op, opc, upd, cont, stamp, updates, seen, store_outcome, before, ret>>
confVars == <<cpc, config_file, config_file_required, file_status, has_config_file,
              layout_len, cfg_index, cur, config_items, cfg_error, got>>
appVars == <<setup, routes_registered>>
acctVars == <<users, next_id, acct>>
svcVars == <<reqVars, healthVars, confVars, appVars, acctVars>>
vars == <<lifeVars, ctrlVars, histVars, hookVars, bootVars, svcVars>>

Ctx == {"main", "task"}
Reqs == 1 .. MaxReqs
Conns == 1 .. PoolSize

\* A coroutine may take a step when the process is alive and no other
\* coroutine holds the event loop.
CanRun(c) == ~exited /\ running \in {"none", c}

-----------------------------------------------------------------------------
(* BaseMicroserviceApplication.__init__ *)

LifecycleInit ==
    /\ is_initialised = FALSE
    /\ shutdown_event = FALSE
    /\ shutdown_complete = FALSE
    /\ pc = [main |-> "idle", task |-> "none"]
    /\ call = "none"
    /\ running = "none"
    /\ init_result = "none"
    /\ run_result = "none"
    /\ must_cancel = FALSE
    /\ pending = "none"
    /\ exited = FALSE
    /\ calls = 0
    /\ setup_calls = 0
    /\ teardown_calls = 0
    /\ stop_calls = 0
    /\ steps = 0
    /\ delivered = "none"
    /\ interrupted = FALSE
    /\ entry = [init |-> FALSE, teardowns |-> 0, stops |-> 0, ok |-> "none"]
    /\ stops_at_throw = 0

-----------------------------------------------------------------------------
(* stop(), executed by the main context (initialise() failure, direct     *)
(* call) or by the run() coroutine (its finally block).                   *)

\* A stop() that forgets to set the shutdown signal before the teardown.
StopSetEvent_NoSignal(c) ==
    /\ CanRun(c)
    /\ pc[c] = "stop_set"
    /\ pc' = [pc EXCEPT ![c] = "stop_teardown"]
    /\ running' = c
    /\ stop_calls' = stop_calls + 1
    /\ UNCHANGED <<lifeVars, call, init_result, run_result, must_cancel, pending, exited>>
    /\ UNCHANGED <<calls, setup_calls, teardown_calls, steps, delivered, interrupted, entry, stops_at_throw>>
    /\ UNCHANGED <<hookVars, bootVars>>
    /\ UNCHANGED svcVars

\* self._shutdown_event.set()
StopSetEvent(c) ==
    /\ CanRun(c)
    /\ pc[c] = "stop_set"
    /\ shutdown_event' = TRUE
    /\ pc' = [pc EXCEPT ![c] = "stop_teardown"]
    /\ running' = c
    /\ stop_calls' = stop_calls + 1
    /\ UNCHANGED <<is_initialised, shutdown_complete>>
    /\ UNCHANGED <<call, init_result, run_result, must_cancel, pending, exited>>
    /\ UNCHANGED <<calls, setup_calls, teardown_calls, steps, delivered, interrupted, entry, stops_at_throw>>
    /\ UNCHANGED <<hookVars, bootVars>>
    /\ UNCHANGED svcVars

\* await self._shutdown(): Application._shutdown has an empty body.
StopTeardown(c) ==
    /\ CanRun(c)
    /\ pc[c] = "stop_teardown"
    /\ teardown_calls' = teardown_calls + 1
    /\ pc' = [pc EXCEPT ![c] = "stop_complete"]
    /\ running' = c
    /\ UNCHANGED <<lifeVars, call, init_result, run_result, must_cancel, pending, exited>>
    /\ UNCHANGED <<calls, setup_calls, stop_calls, steps, delivered, interrupted, entry, stops_at_throw>>
    /\ UNCHANGED <<hookVars, bootVars>>
    /\ UNCHANGED svcVars

\* self._shutdown_complete.set()
StopComplete(c) ==
    /\ CanRun(c)
    /\ pc[c] = "stop_complete"
    /\ shutdown_complete' = TRUE
    /\ pc' = [pc EXCEPT ![c] = "after_stop"]
    /\ running' = c
    /\ UNCHANGED <<is_initialised, shutdown_event>>
    /\ UNCHANGED <<call, init_result, run_result, must_cancel, pending, exited>>
    /\ UNCHANGED histVars
    /\ UNCHANGED <<hookVars, bootVars>>
    /\ UNCHANGED svcVars

\* A direct stop() call returns to its caller.
StopReturn ==
    /\ CanRun("main")
    /\ pc["main"] = "after_stop"
    /\ call = "stop"
    /\ pc' = [pc EXCEPT !["main"] = "idle"]
    /\ call' = "none"
    /\ running' = "none"
    /\ UNCHANGED <<lifeVars, init_result, run_result, must_cancel, pending, exited>>
    /\ UNCHANGED histVars
    /\ UNCHANGED <<hookVars, bootVars>>
    /\ UNCHANGED svcVars

-----------------------------------------------------------------------------
(* initialise() *)

\* Acceptable values of WEAVEFEED_ACCOUNTS_CONFIG_FILE_REQUIRED
truths == {"1", "true", "yes", "on"}

falses == {"0", "false", "no", "off"}

\* raw_required: the variable's value, "false" without it, stripped and in
\* lower case.
RawRequired == {"yes", "false", "maybe"}

\* An _initialise() that goes on after process_config() raised.
SetupOutcome_IgnoresConfigError(path, flag, raises) ==
    IF flag \notin truths \cup falses THEN "invalid_flag"
    ELSE IF ~path /\ flag \in truths THEN "path_missing"
    ELSE "ok"

\* Application._initialise: how it ends when WEAVEFEED_ACCOUNTS_CONFIG_FILE is
\* set or not (path), raw_required is flag, and process_config() raises
\* ValueError or not.  "ok": the log level is set, the routes are
\* registered and True is returned; anything else: False is returned.
SetupOutcome(path, flag, raises) ==
    IF flag \notin truths \cup falses THEN "invalid_flag"
    ELSE IF ~path /\ flag \in truths THEN "path_missing"
    ELSE IF raises THEN "config_error"
    ELSE "ok"

\* _initialise() runs: process_config() is reached only with a valid flag
\* and, when the file is required, a path.
Setup(next_if_failed) ==
    \E path \in BOOLEAN, flag \in RawRequired :
      \E raises \in (IF SetupOutcome(path, flag, FALSE) = "ok" THEN BOOLEAN ELSE {FALSE}) :
        LET ok == SetupOutcome(path, flag, raises) = "ok"
        IN  /\ setup' = [path |-> path, flag |-> flag, raises |-> raises,
                         outcome |-> SetupOutcome(path, flag, raises)]
            /\ routes_registered' = (routes_registered \/ ok)
            /\ pc' = [pc EXCEPT !["main"] = IF ok THEN "init_mark" ELSE next_if_failed]
            /\ entry' = [entry EXCEPT !.ok = IF ok THEN "true" ELSE "false"]

\* An initialise() that returns False without calling stop().
InitialiseSetup_NoStop ==
    /\ CanRun("main")
    /\ pc["main"] = "init_setup"
    /\ Setup("after_stop")
    /\ setup_calls' = setup_calls + 1
    /\ running' = "main"
    /\ UNCHANGED <<lifeVars, call, init_result, run_result, must_cancel, pending, exited>>
    /\ UNCHANGED <<calls, teardown_calls, stop_calls, steps, delivered, interrupted, stops_at_throw>>
    /\ UNCHANGED <<hookVars, bootVars>>
    /\ UNCHANGED <<reqVars, healthVars, confVars, acctVars>>

\* if await self._initialise() is True: ... else: await self.stop()
\* Application._initialise returns True or False and contains no await.
InitialiseSetup ==
    /\ CanRun("main")
    /\ pc["main"] = "init_setup"
    /\ Setup("stop_set")
    /\ setup_calls' = setup_calls + 1
    /\ running' = "main"
    /\ UNCHANGED <<lifeVars, call, init_result, run_result, must_cancel, pending, exited>>
    /\ UNCHANGED <<calls, teardown_calls, stop_calls, steps, delivered, interrupted, stops_at_throw>>
    /\ UNCHANGED <<hookVars, bootVars>>
    /\ UNCHANGED <<reqVars, healthVars, confVars, acctVars>>

\* self._is_initialised = True; return True
InitialiseMark ==
    /\ CanRun("main")
    /\ pc["main"] = "init_mark"
    /\ is_initialised' = TRUE
    /\ init_result' = "true"
    /\ pc' = [pc EXCEPT !["main"] = "idle"]
    /\ call' = "none"
    /\ running' = "none"
    /\ UNCHANGED <<shutdown_event, shutdown_complete>>
    /\ UNCHANGED <<run_result, must_cancel, pending, exited>>
    /\ UNCHANGED histVars
    /\ UNCHANGED <<hookVars, bootVars>>
    /\ UNCHANGED svcVars

\* await self.stop() has returned; return False
InitialiseFail ==
    /\ CanRun("main")
    /\ pc["main"] = "after_stop"
    /\ call = "initialise"
    /\ init_result' = "false"
    /\ pc' = [pc EXCEPT !["main"] = "idle"]
    /\ call' = "none"
    /\ running' = "none"
    /\ UNCHANGED lifeVars
    /\ UNCHANGED <<run_result, must_cancel, pending, exited>>
    /\ UNCHANGED histVars
    /\ UNCHANGED <<hookVars, bootVars>>
    /\ UNCHANGED svcVars

-----------------------------------------------------------------------------
(* run(), the coroutine of the background task *)

\* A run() that enters its loop without looking at _is_initialised.
TaskStart_NoGuard ==
    /\ CanRun("task")
    /\ pc["task"] = "created"
    /\ IF must_cancel
       THEN /\ pc' = [pc EXCEPT !["task"] = "done"]
            /\ run_result' = "cancelled"
            /\ delivered' = "start"
            /\ must_cancel' = FALSE
            /\ running' = "none"
       ELSE /\ pc' = [pc EXCEPT !["task"] = "loop_check"]
            /\ running' = "task"
            /\ UNCHANGED <<run_result, delivered, must_cancel>>
    /\ UNCHANGED <<lifeVars, call, init_result, pending, exited>>
    /\ UNCHANGED <<calls, setup_calls, teardown_calls, stop_calls, steps, interrupted, entry, stops_at_throw>>
    /\ UNCHANGED <<hookVars, bootVars>>
    /\ UNCHANGED svcVars

\* The task's first step.  A task cancelled before its first step ends
\* cancelled without executing any of run(); otherwise
\* if not self._is_initialised: return
TaskStart ==
    /\ CanRun("task")
    /\ pc["task"] = "created"
    /\ IF must_cancel
       THEN /\ pc' = [pc EXCEPT !["task"] = "done"]
            /\ run_result' = "cancelled"
            /\ delivered' = "start"
            /\ must_cancel' = FALSE
            /\ running' = "none"
       ELSE IF ~is_initialised
       THEN /\ pc' = [pc EXCEPT !["task"] = "done"]
            /\ run_result' = "returned"
            /\ running' = "none"
            /\ UNCHANGED <<delivered, must_cancel>>
       ELSE /\ pc' = [pc EXCEPT !["task"] = "loop_check"]
            /\ running' = "task"
            /\ UNCHANGED <<run_result, delivered, must_cancel>>
    /\ UNCHANGED <<lifeVars, call, init_result, pending, exited>>
    /\ UNCHANGED <<calls, setup_calls, teardown_calls, stop_calls, steps, interrupted, entry, stops_at_throw>>
    /\ UNCHANGED <<hookVars, bootVars>>
    /\ UNCHANGED svcVars

\* A loop that runs the application step without checking the signal.
LoopCheck_NoCheck ==
    /\ CanRun("task")
    /\ pc["task"] = "loop_check"
    /\ steps < MaxSteps
    /\ steps' = steps + 1
    /\ pc' = [pc EXCEPT !["task"] = "in_main_loop"]
    /\ running' = "none"
    /\ UNCHANGED <<lifeVars, call, init_result, run_result, must_cancel, pending, exited>>
    /\ UNCHANGED <<calls, setup_calls, teardown_calls, stop_calls, delivered, interrupted, entry, stops_at_throw>>
    /\ UNCHANGED <<hookVars, bootVars>>
    /\ UNCHANGED svcVars

\* if self.shutdown_event.is_set(): break
\* await self._main_loop(): Application._main_loop suspends in asyncio.sleep(0.1)
LoopCheck ==
    /\ CanRun("task")
    /\ pc["task"] = "loop_check"
    /\ IF shutdown_event
       THEN /\ pc' = [pc EXCEPT !["task"] = "finally"]
            /\ running' = "task"
            /\ UNCHANGED steps
       ELSE /\ steps < MaxSteps
            /\ steps' = steps + 1
            /\ pc' = [pc EXCEPT !["task"] = "in_main_loop"]
            /\ running' = "none"
    /\ UNCHANGED <<lifeVars, call, init_result, run_result, must_cancel, pending, exited>>
    /\ UNCHANGED <<calls, setup_calls, teardown_calls, stop_calls, delivered, interrupted, entry, stops_at_throw>>
    /\ UNCHANGED <<hookVars, bootVars>>
    /\ UNCHANGED svcVars

\* The task is resumed inside _main_loop: CancelledError is thrown there if
\* a cancellation was requested, otherwise _main_loop returns and
\* await asyncio.sleep(0.1) suspends the task again.
MainLoopResume ==
    /\ CanRun("task")
    /\ pc["task"] = "in_main_loop"
    /\ IF must_cancel
       THEN /\ pc' = [pc EXCEPT !["task"] = "except_cancelled"]
            /\ must_cancel' = FALSE
            /\ delivered' = "main_loop"
            /\ stops_at_throw' = stop_calls
            /\ running' = "task"
       ELSE /\ pc' = [pc EXCEPT !["task"] = "in_sleep"]
            /\ running' = "none"
            /\ UNCHANGED <<must_cancel, delivered, stops_at_throw>>
    /\ UNCHANGED <<lifeVars, call, init_result, run_result, pending, exited>>
    /\ UNCHANGED <<calls, setup_calls, teardown_calls, stop_calls, steps, interrupted, entry>>
    /\ UNCHANGED <<hookVars, bootVars>>
    /\ UNCHANGED svcVars

\* The task is resumed inside asyncio.sleep(0.1).
SleepResume ==
    /\ CanRun("task")
    /\ pc["task"] = "in_sleep"
    /\ IF must_cancel
       THEN /\ pc' = [pc EXCEPT !["task"] = "except_cancelled"]
            /\ must_cancel' = FALSE
            /\ delivered' = "sleep"
            /\ stops_at_throw' = stop_calls
       ELSE /\ pc' = [pc EXCEPT !["task"] = "loop_check"]
            /\ UNCHANGED <<must_cancel, delivered, stops_at_throw>>
    /\ running' = "task"
    /\ UNCHANGED <<lifeVars, call, init_result, run_result, pending, exited>>
    /\ UNCHANGED <<calls, setup_calls, teardown_calls, stop_calls, steps, interrupted, entry>>
    /\ UNCHANGED <<hookVars, bootVars>>
    /\ UNCHANGED svcVars

\* A handler that swallows the cancellation.
RunCancelled_Swallow ==
    /\ CanRun("task")
    /\ pc["task"] = "except_cancelled"
    /\ pending' = "none"
    /\ pc' = [pc EXCEPT !["task"] = "finally"]
    /\ running' = "task"
    /\ UNCHANGED <<lifeVars, call, init_result, run_result, must_cancel, exited>>
    /\ UNCHANGED histVars
    /\ UNCHANGED <<hookVars, bootVars>>
    /\ UNCHANGED svcVars

\* except asyncio.CancelledError: ...; raise
RunCancelled ==
    /\ CanRun("task")
    /\ pc["task"] = "except_cancelled"
    /\ pending' = "cancel"
    /\ pc' = [pc EXCEPT !["task"] = "finally"]
    /\ running' = "task"
    /\ UNCHANGED <<lifeVars, call, init_result, run_result, must_cancel, exited>>
    /\ UNCHANGED histVars
    /\ UNCHANGED <<hookVars, bootVars>>
    /\ UNCHANGED svcVars

\* KeyboardInterrupt is raised in the code of the try block: at the loop
\* check, or as the task is resumed (no cancellation being delivered).
Interrupt ==
    /\ CanRun("task")
    /\ pc["task"] \in {"loop_check", "in_main_loop", "in_sleep"}
    /\ ~must_cancel
    /\ interrupted' = TRUE
    /\ stops_at_throw' = stop_calls
    /\ pc' = [pc EXCEPT !["task"] = "except_interrupt"]
    /\ running' = "task"
    /\ UNCHANGED <<lifeVars, call, init_result, run_result, must_cancel, pending, exited>>
    /\ UNCHANGED <<calls, setup_calls, teardown_calls, stop_calls, steps, delivered, entry>>
    /\ UNCHANGED <<hookVars, bootVars>>
    /\ UNCHANGED svcVars

\* A handler that lets the interrupt escape from run().
RunInterrupted_Reraise ==
    /\ CanRun("task")
    /\ pc["task"] = "except_interrupt"
    /\ pending' = "interrupt"
    /\ pc' = [pc EXCEPT !["task"] = "finally"]
    /\ running' = "task"
    /\ UNCHANGED <<lifeVars, call, init_result, run_result, must_cancel, exited>>
    /\ UNCHANGED histVars
    /\ UNCHANGED <<hookVars, bootVars>>
    /\ UNCHANGED svcVars

\* except KeyboardInterrupt: ...; self._shutdown_event.set()
RunInterrupted ==
    /\ CanRun("task")
    /\ pc["task"] = "except_interrupt"
    /\ shutdown_event' = TRUE
    /\ pc' = [pc EXCEPT !["task"] = "finally"]
    /\ running' = "task"
    /\ UNCHANGED <<is_initialised, shutdown_complete>>
    /\ UNCHANGED <<call, init_result, run_result, must_cancel, pending, exited>>
    /\ UNCHANGED histVars
    /\ UNCHANGED <<hookVars, bootVars>>
    /\ UNCHANGED svcVars

\* finally: ...; await self.stop()
RunFinally ==
    /\ CanRun("task")
    /\ pc["task"] = "finally"
    /\ pc' = [pc EXCEPT !["task"] = "stop_set"]
    /\ running' = "task"
    /\ UNCHANGED <<lifeVars, call, init_result, run_result, must_cancel, pending, exited>>
    /\ UNCHANGED histVars
    /\ UNCHANGED <<hookVars, bootVars>>
    /\ UNCHANGED svcVars

\* The finally block ends: the pending CancelledError, if any, leaves run()
\* and the task ends cancelled; otherwise run() returns.
RunExit ==
    /\ CanRun("task")
    /\ pc["task"] = "after_stop"
    /\ run_result' = CASE pending = "none" -> "returned"
                        [] pending = "cancel" -> "cancelled"
                        [] OTHER -> "raised"
    /\ pending' = "none"
    /\ pc' = [pc EXCEPT !["task"] = "done"]
    /\ running' = "none"
    /\ UNCHANGED <<lifeVars, call, init_result, must_cancel, exited>>
    /\ UNCHANGED histVars
    /\ UNCHANGED <<hookVars, bootVars>>
    /\ UNCHANGED svcVars

\* task.cancel(): no effect on a task that is done.
CancelRequest == IF pc["task"] \in {"none", "done"} THEN must_cancel ELSE TRUE

-----------------------------------------------------------------------------
(* A direct caller of the lifecycle API, as the unit tests and the hooks  *)
(* are: it calls initialise() and stop(), starts run() as a task, cancels *)
(* that task and sets the shutdown signal, in any order, whenever the     *)
(* event loop is free.                                                    *)

CallInitialise ==
    /\ CanRun("main") /\ running = "none"
    /\ pc["main"] = "idle"
    /\ calls < MaxCalls
    /\ calls' = calls + 1
    /\ call' = "initialise"
    /\ pc' = [pc EXCEPT !["main"] = "init_setup"]
    /\ running' = "main"
    /\ entry' = [init |-> is_initialised, teardowns |-> teardown_calls,
                 stops |-> stop_calls, ok |-> "none"]
    /\ UNCHANGED <<lifeVars, init_result, run_result, must_cancel, pending, exited>>
    /\ UNCHANGED <<setup_calls, teardown_calls, stop_calls, steps, delivered, interrupted, stops_at_throw>>
    /\ UNCHANGED <<hookVars, bootVars>>
    /\ UNCHANGED svcVars

CallStop ==
    /\ CanRun("main") /\ running = "none"
    /\ pc["main"] = "idle"
    /\ calls < MaxCalls
    /\ calls' = calls + 1
    /\ call' = "stop"
    /\ pc' = [pc EXCEPT !["main"] = "stop_set"]
    /\ running' = "main"
    /\ UNCHANGED <<lifeVars, init_result, run_result, must_cancel, pending, exited>>
    /\ UNCHANGED <<setup_calls, teardown_calls, stop_calls, steps, delivered, interrupted, entry, stops_at_throw>>
    /\ UNCHANGED <<hookVars, bootVars>>
    /\ UNCHANGED svcVars

\* asyncio.create_task(app.run())
CallRun ==
    /\ CanRun("main") /\ running = "none"
    /\ pc["main"] = "idle"
    /\ pc["task"] \in {"none", "done"}
    /\ calls < MaxCalls
    /\ calls' = calls + 1
    /\ pc' = [pc EXCEPT !["task"] = "created"]
    /\ run_result' = "none"
    /\ delivered' = "none"
    /\ interrupted' = FALSE
    /\ UNCHANGED <<lifeVars, call, running, init_result, must_cancel, pending, exited>>
    /\ UNCHANGED <<setup_calls, teardown_calls, stop_calls, steps, entry, stops_at_throw>>
    /\ UNCHANGED <<hookVars, bootVars>>
    /\ UNCHANGED svcVars

\* task.cancel()
CallCancel ==
    /\ CanRun("main") /\ running = "none"
    /\ pc["task"] \notin {"none", "done"}
    /\ ~must_cancel
    /\ must_cancel' = CancelRequest
    /\ UNCHANGED <<lifeVars, pc, call, running, init_result, run_result, pending, exited>>
    /\ UNCHANGED histVars
    /\ UNCHANGED <<hookVars, bootVars>>
    /\ UNCHANGED svcVars

\* app.shutdown_event.set()
CallSetShutdownEvent ==
    /\ CanRun("main") /\ running = "none"
    /\ ~shutdown_event
    /\ shutdown_event' = TRUE
    /\ UNCHANGED <<is_initialised, shutdown_complete>>
    /\ UNCHANGED ctrlVars
    /\ UNCHANGED histVars
    /\ UNCHANGED <<hookVars, bootVars>>
    /\ UNCHANGED svcVars

-----------------------------------------------------------------------------
(* The lifecycle class under a direct caller *)

\* No request has been received.
NoRequests ==
    /\ rpc = [r \in Reqs |-> "new"]
    /\ route = [r \in Reqs |-> "none"]
    /\ g_db = [r \in Reqs |-> 0]
    /\ holder = [c \in Conns |-> 0]
    /\ response = [r \in Reqs |-> "none"]
    /\ acquire_outcome = [r \in Reqs |-> "none"]
    /\ released = [r \in Reqs |-> <<>>]
    /\ after_503 = [r \in Reqs |-> FALSE]

NoUpd == [comp |-> "none", level |-> "none", detail |-> ""]

NoSeen == [status |-> "none", database |-> "none", service |-> "none", pair |-> <<0, 0>>]

NoSnapshot == <<"none", "", "none", "">>

\* StateObject() as constructed, and no coroutine using it yet.
HealthInit ==
    /\ service_health = "none" /\ service_health_state_str = ""
    /\ database_health = "none" /\ database_health_state_str = ""
    /\ op = [h \in Reqs |-> "none"]
    /\ opc = [h \in Reqs |-> "idle"]
    /\ upd = [h \in Reqs |-> NoUpd]
    /\ cont = [h \in Reqs |-> "idle"]
    /\ stamp = [database_health |-> 0, database_health_state_str |-> 0,
                service_health |-> 0, service_health_state_str |-> 0]
    /\ updates = 0
    /\ seen = [h \in Reqs |-> NoSeen]
    /\ store_outcome = [h \in Reqs |-> "none"]
    /\ before = [h \in Reqs |-> NoSnapshot]
    /\ ret = [h \in Reqs |-> "none"]

\* A Python value: the name of its type and its text.
V(t, v) == [t |-> t, v |-> v]

NoneV == V("NoneType", "None")

Unset == V("unset", "")

NoItem ==
    [index |-> 0, section |-> "", item_name |-> "", env_var |-> "", item_type |-> "none",
     is_required |-> FALSE, restricted |-> FALSE, default_value |-> NoneV,
     env |-> NoneV, file |-> NoneV]

NoError == [type |-> "none", what |-> "", section |-> "", item |-> "", raw |-> ""]

NoGot == [key |-> 0, result |-> Unset, error |-> NoError]

\* No Configuration object has been constructed.
NoConfig ==
    /\ cpc = "unused"
    /\ config_file = FALSE /\ config_file_required = FALSE
    /\ file_status = "none" /\ has_config_file = FALSE
    /\ layout_len = 0 /\ cfg_index = 0
    /\ cur = NoItem
    /\ config_items = [k \in 1 .. MaxItems |-> Unset]
    /\ cfg_error = NoError
    /\ got = NoGot

\* A row of the users table (database/user.py); password_hash "" is NULL,
\* last_login counts the updates of the column.
NoRow ==
    [id |-> 0, username |-> "", email |-> "", password_hash |-> "",
     is_active |-> FALSE, is_verified |-> FALSE, last_login |-> 0]

\* The user a response names.
NoOut == [user_id |-> "", username |-> "", email |-> "", is_verified |-> FALSE]

\* A coroutine that has not been given a signup, create_user or login.
NoCall ==
    [pc |-> "idle", kind |-> "none", body |-> "none", name |-> "", email |-> "", password |-> "",
     chk |-> "none", ins |-> "none", cands |-> {}, row |-> NoRow, uid |-> 0, writes |-> 0,
     status |-> "none", text |-> "", out |-> NoOut]

\* bcrypt.hash(password) and bcrypt.verify(password, hash): a hash verifies
\* the password it was made from and no other.
Hash(p) == "bcrypt:" \o p

Verify(p, h) == h = Hash(p)

\* Rows the users table may hold when the service starts: an active and
\* verified user, a user whose username is the first one's email (the two
\* unique constraints are per column), a disabled user, and a user without
\* password (external authentication only).
StoredRows ==
    { [NoRow EXCEPT !.id = 1, !.username = "alice", !.email = "a@x", !.password_hash = Hash("pw1"),
                    !.is_active = TRUE, !.is_verified = TRUE],
      [NoRow EXCEPT !.id = 2, !.username = "a@x", !.email = "b@x", !.password_hash = Hash("pw2"),
                    !.is_active = TRUE],
      [NoRow EXCEPT !.id = 3, !.username = "bob", !.email = "c@x", !.password_hash = Hash("pw1")],
      [NoRow EXCEPT !.id = 4, !.username = "dan", !.email = "d@x", !.is_active = TRUE] }

\* username and email are unique columns.
Unique(rows) ==
    \A u, v \in rows : (u.username = v.username \/ u.email = v.email) => u = v

\* uuid.uuid4() never returns the id of a stored row.
FirstId == Cardinality(StoredRows) + 1

\* No signup or login has been received.
NoCalls == acct = [h \in Reqs |-> NoCall] /\ next_id = FirstId

NoTraffic == NoRequests /\ HealthInit /\ NoConfig /\ NoCalls /\ users = {}

\* _initialise() has not been called.
NoApp ==
    /\ setup = [path |-> FALSE, flag |-> "", raises |-> FALSE, outcome |-> "none"]
    /\ routes_registered = FALSE

\* _initialise() has returned True: a config file was named and required,
\* and process_config() read it.
AppServing ==
    /\ setup = [path |-> TRUE, flag |-> "yes", raises |-> FALSE, outcome |-> "ok"]
    /\ routes_registered = TRUE

NoService ==
    /\ spc = "unused" /\ hpc = "unused" /\ db_pool = "none" /\ pool_closes = 0

NoBootstrap ==
    /\ bpc = "idle" /\ retries = 0 /\ attempt = 0 /\ attempts_made = 0
    /\ waits = 0 /\ last_wait = 0 /\ last_outcome = "none" /\ cancel_calls = 0 /\ pool = 0

LifecycleStart == LifecycleInit /\ NoService /\ NoBootstrap /\ NoTraffic /\ NoApp

StopNext ==
    \E c \in Ctx : StopSetEvent(c) \/ StopTeardown(c) \/ StopComplete(c)

TaskNext ==
    \/ TaskStart \/ LoopCheck \/ MainLoopResume \/ SleepResume
    \/ RunCancelled \/ RunInterrupted \/ RunFinally \/ RunExit

InitialiseNext ==
    \/ InitialiseSetup \/ InitialiseMark \/ InitialiseFail

MethodNext == InitialiseNext \/ StopReturn

CallerNext ==
    \/ CallInitialise \/ CallStop \/ CallRun \/ CallCancel \/ CallSetShutdownEvent

LifecycleNext == StopNext \/ TaskNext \/ MethodNext \/ Interrupt \/ CallerNext

LifecycleSpec == LifecycleStart /\ [][LifecycleNext]_vars

\* The event loop resumes every coroutine that is ready, and a call that
\* was entered runs on.
FairLifecycleSpec ==
    LifecycleSpec /\ WF_vars(StopNext) /\ WF_vars(TaskNext) /\ WF_vars(MethodNext)

-----------------------------------------------------------------------------
(* create_db_pool(config, retries, base_delay) and cancel_background_tasks, *)
(* run by the coroutine that called create_db_pool (the main context).      *)

Outcomes ==
    {"ok", "InvalidPasswordError", "InvalidCatalogNameError",
     "CannotConnectNowError", "TimeoutError", "OSError", "PostgresError"}

\* except InvalidPasswordError / InvalidCatalogNameError: ...; break
NonRetryable == {"InvalidPasswordError", "InvalidCatalogNameError"}

\* the handlers that fall through to the backoff
Retryable == {"CannotConnectNowError", "TimeoutError", "OSError", "PostgresError"}

RECURSIVE Pow2(_)
Pow2(n) == IF n <= 0 THEN 1 ELSE 2 * Pow2(n - 1)

\* delay = base_delay * (2 ** (attempt - 1))
Delay(k) == BaseDelay * Pow2(k - 1)

\* A jitter of up to half the delay.
Jitters_Half(d) == 0 .. (d \div 2)

\* jitter = random.uniform(0, 0.3 * delay), on the grid of 0.1 s
Jitters(d) == 0 .. ((3 * d) \div 10)

\* A bootstrap that makes its first attempt whatever retries is.
PoolBegin_AlwaysAttempts ==
    /\ CanRun("main")
    /\ bpc = "called"
    /\ attempt' = 1
    /\ attempts_made' = attempts_made + 1
    /\ bpc' = "connecting"
    /\ running' = "none"
    /\ UNCHANGED <<retries, waits, last_wait, last_outcome, cancel_calls, pool>>
    /\ UNCHANGED <<lifeVars, pc, call, init_result, run_result, must_cancel, pending, exited>>
    /\ UNCHANGED <<histVars, hookVars>>
    /\ UNCHANGED svcVars

\* for attempt in range(1, retries + 1): the first iteration, or none
PoolBegin ==
    /\ CanRun("main")
    /\ bpc = "called"
    /\ IF retries >= 1
       THEN /\ attempt' = 1
            /\ attempts_made' = attempts_made + 1
            /\ bpc' = "connecting"
            /\ running' = "none"
       ELSE /\ bpc' = "terminal"
            /\ running' = "main"
            /\ UNCHANGED <<attempt, attempts_made>>
    /\ UNCHANGED <<retries, waits, last_wait, last_outcome, cancel_calls, pool>>
    /\ UNCHANGED <<lifeVars, pc, call, init_result, run_result, must_cancel, pending, exited>>
    /\ UNCHANGED <<histVars, hookVars>>
    /\ UNCHANGED svcVars

\* A bootstrap that retries the non-retryable errors like the others.
PoolAttemptResult_RetryAll ==
    /\ CanRun("main")
    /\ bpc = "connecting"
    /\ \E o \in Outcomes :
          /\ last_outcome' = o
          /\ IF o = "ok"
             THEN /\ pool' = attempt
                  /\ bpc' = "returned"
                  /\ running' = "main"
                  /\ UNCHANGED <<waits, last_wait>>
             ELSE IF attempt < retries
             THEN \E jitter \in Jitters(Delay(attempt)) :
                     /\ waits' = waits + 1
                     /\ last_wait' = Delay(attempt) + jitter
                     /\ bpc' = "sleeping"
                     /\ running' = "none"
                     /\ UNCHANGED pool
             ELSE /\ bpc' = "terminal"
                  /\ running' = "main"
                  /\ UNCHANGED <<waits, last_wait, pool>>
    /\ UNCHANGED <<retries, attempt, attempts_made, cancel_calls>>
    /\ UNCHANGED <<lifeVars, pc, call, init_result, run_result, must_cancel, pending, exited>>
    /\ UNCHANGED <<histVars, hookVars>>
    /\ UNCHANGED svcVars

\* A bootstrap that has no "return pool": a successful attempt falls through
\* to the end of the loop.
PoolAttemptResult_NoReturn ==
    /\ CanRun("main")
    /\ bpc = "connecting"
    /\ \E o \in Outcomes :
          /\ last_outcome' = o
          /\ IF o = "ok" \/ o \in NonRetryable
             THEN /\ bpc' = "terminal"
                  /\ running' = "main"
                  /\ UNCHANGED <<waits, last_wait, pool>>
             ELSE IF attempt < retries
             THEN \E jitter \in Jitters(Delay(attempt)) :
                     /\ waits' = waits + 1
                     /\ last_wait' = Delay(attempt) + jitter
                     /\ bpc' = "sleeping"
                     /\ running' = "none"
                     /\ UNCHANGED pool
             ELSE /\ bpc' = "terminal"
                  /\ running' = "main"
                  /\ UNCHANGED <<waits, last_wait, pool>>
    /\ UNCHANGED <<retries, attempt, attempts_made, cancel_calls>>
    /\ UNCHANGED <<lifeVars, pc, call, init_result, run_result, must_cancel, pending, exited>>
    /\ UNCHANGED <<histVars, hookVars>>
    /\ UNCHANGED svcVars

\* A backoff that also sleeps after the final attempt.
PoolAttemptResult_WaitAfterLast ==
    /\ CanRun("main")
    /\ bpc = "connecting"
    /\ \E o \in Outcomes :
          /\ last_outcome' = o
          /\ IF o = "ok"
             THEN /\ pool' = attempt
                  /\ bpc' = "returned"
                  /\ running' = "main"
                  /\ UNCHANGED <<waits, last_wait>>
             ELSE IF o \in NonRetryable
             THEN /\ bpc' = "terminal"
                  /\ running' = "main"
                  /\ UNCHANGED <<waits, last_wait, pool>>
             ELSE \E jitter \in Jitters(Delay(attempt)) :
                     /\ waits' = waits + 1
                     /\ last_wait' = Delay(attempt) + jitter
                     /\ bpc' = "sleeping"
                     /\ running' = "none"
                     /\ UNCHANGED pool
    /\ UNCHANGED <<retries, attempt, attempts_made, cancel_calls>>
    /\ UNCHANGED <<lifeVars, pc, call, init_result, run_result, must_cancel, pending, exited>>
    /\ UNCHANGED <<histVars, hookVars>>
    /\ UNCHANGED svcVars

\* await asyncpg.create_pool(...) ends: the pool is returned, a
\* non-retryable error breaks out of the loop, a retryable error is followed
\* by asyncio.sleep(wait_time) if attempt < retries and by the end of the
\* loop otherwise.
PoolAttemptResult ==
    /\ CanRun("main")
    /\ bpc = "connecting"
    /\ \E o \in Outcomes :
          /\ last_outcome' = o
          /\ IF o = "ok"
             THEN /\ pool' = attempt
                  /\ bpc' = "returned"
                  /\ running' = "main"
                  /\ UNCHANGED <<waits, last_wait>>
             ELSE IF o \in NonRetryable
             THEN /\ bpc' = "terminal"
                  /\ running' = "main"
                  /\ UNCHANGED <<waits, last_wait, pool>>
             ELSE IF attempt < retries
             THEN \E jitter \in Jitters(Delay(attempt)) :
                     /\ waits' = waits + 1
                     /\ last_wait' = Delay(attempt) + jitter
                     /\ bpc' = "sleeping"
                     /\ running' = "none"
                     /\ UNCHANGED pool
             ELSE /\ bpc' = "terminal"
                  /\ running' = "main"
                  /\ UNCHANGED <<waits, last_wait, pool>>
    /\ UNCHANGED <<retries, attempt, attempts_made, cancel_calls>>
    /\ UNCHANGED <<lifeVars, pc, call, init_result, run_result, must_cancel, pending, exited>>
    /\ UNCHANGED <<histVars, hookVars>>
    /\ UNCHANGED svcVars

\* continue: the next iteration of the for loop, if there is one
PoolWake ==
    /\ CanRun("main")
    /\ bpc = "sleeping"
    /\ IF attempt + 1 <= retries
       THEN /\ attempt' = attempt + 1
            /\ attempts_made' = attempts_made + 1
            /\ bpc' = "connecting"
            /\ running' = "none"
       ELSE /\ bpc' = "terminal"
            /\ running' = "main"
            /\ UNCHANGED <<attempt, attempts_made>>
    /\ UNCHANGED <<retries, waits, last_wait, last_outcome, cancel_calls, pool>>
    /\ UNCHANGED <<lifeVars, pc, call, init_result, run_result, must_cancel, pending, exited>>
    /\ UNCHANGED <<histVars, hookVars>>
    /\ UNCHANGED svcVars

\* A terminal path that cancels the task and exits without awaiting it.
PoolTerminal_NoAwait ==
    /\ CanRun("main")
    /\ bpc = "terminal"
    /\ cancel_calls' = cancel_calls + 1
    /\ must_cancel' = CancelRequest
    /\ bpc' = "exit"
    /\ running' = "main"
    /\ UNCHANGED <<retries, attempt, attempts_made, waits, last_wait, last_outcome, pool>>
    /\ UNCHANGED <<lifeVars, pc, call, init_result, run_result, pending, exited>>
    /\ UNCHANGED <<histVars, hookVars>>
    /\ UNCHANGED svcVars

\* if app is not None: await cancel_background_tasks()
\* task = getattr(app, "background_task", None); if task: task.cancel(); await task
\* Awaiting a task that is done does not suspend.
PoolTerminal ==
    /\ CanRun("main")
    /\ bpc = "terminal"
    /\ cancel_calls' = cancel_calls + 1
    /\ must_cancel' = CancelRequest
    /\ IF pc["task"] \in {"none", "done"}
       THEN bpc' = "exit" /\ running' = "main"
       ELSE bpc' = "await_task" /\ running' = "none"
    /\ UNCHANGED <<retries, attempt, attempts_made, waits, last_wait, last_outcome, pool>>
    /\ UNCHANGED <<lifeVars, pc, call, init_result, run_result, pending, exited>>
    /\ UNCHANGED <<histVars, hookVars>>
    /\ UNCHANGED svcVars

\* await task ends once the task is done; its CancelledError is suppressed
PoolTaskDone ==
    /\ CanRun("main")
    /\ bpc = "await_task"
    /\ pc["task"] = "done"
    /\ bpc' = "exit"
    /\ running' = "main"
    /\ UNCHANGED <<retries, attempt, attempts_made, waits, last_wait, last_outcome, cancel_calls, pool>>
    /\ UNCHANGED <<lifeVars, pc, call, init_result, run_result, must_cancel, pending, exited>>
    /\ UNCHANGED <<histVars, hookVars>>
    /\ UNCHANGED svcVars

\* os._exit(1)
PoolExit ==
    /\ CanRun("main")
    /\ bpc = "exit"
    /\ exited' = TRUE
    /\ bpc' = "exited"
    /\ running' = "none"
    /\ UNCHANGED <<retries, attempt, attempts_made, waits, last_wait, last_outcome, cancel_calls, pool>>
    /\ UNCHANGED <<lifeVars, pc, call, init_result, run_result, must_cancel, pending>>
    /\ UNCHANGED <<histVars, hookVars>>
    /\ UNCHANGED svcVars

\* create_db_pool while no background task exists
PoolAloneNext ==
    \/ PoolBegin \/ PoolAttemptResult \/ PoolWake \/ PoolTerminal \/ PoolExit

PoolNext == PoolAloneNext \/ PoolTaskDone

\* create_db_pool called directly with retries in -1 .. MaxRetries, with no
\* background task or with the task startup() creates on an initialised
\* lifecycle.
PoolStart ==
    /\ \E has_task \in BOOLEAN :
          /\ is_initialised = has_task
          /\ pc = [main |-> "idle", task |-> IF has_task THEN "created" ELSE "none"]
          /\ init_result = IF has_task THEN "true" ELSE "none"
          /\ setup_calls = IF has_task THEN 1 ELSE 0
          /\ IF has_task THEN AppServing ELSE NoApp
          /\ entry = [init |-> FALSE, teardowns |-> 0, stops |-> 0,
                      ok |-> IF has_task THEN "true" ELSE "none"]
    /\ shutdown_event = FALSE /\ shutdown_complete = FALSE
    /\ call = "none" /\ running = "none" /\ run_result = "none"
    /\ must_cancel = FALSE /\ pending = "none" /\ exited = FALSE
    /\ calls = 0 /\ teardown_calls = 0 /\ stop_calls = 0 /\ steps = 0
    /\ delivered = "none" /\ interrupted = FALSE /\ stops_at_throw = 0
    /\ NoService
    /\ bpc = "called" /\ retries \in -1 .. MaxRetries
    /\ attempt = 0 /\ attempts_made = 0 /\ waits = 0 /\ last_wait = 0
    /\ last_outcome = "none" /\ cancel_calls = 0 /\ pool = 0
    /\ NoTraffic

TaskStopNext ==
    StopSetEvent("task") \/ StopTeardown("task") \/ StopComplete("task")

PoolSpecNext == PoolNext \/ TaskNext \/ TaskStopNext \/ Interrupt

PoolSpec == PoolStart /\ [][PoolSpecNext]_vars

\* The event loop resumes the bootstrap and the background task whenever
\* they are ready.
FairPoolSpec ==
    PoolSpec /\ WF_vars(PoolNext) /\ WF_vars(TaskNext) /\ WF_vars(TaskStopNext)

-----------------------------------------------------------------------------
(* The accounts service: the before-serving and after-serving hooks *)

\* await SERVICE_APP.initialise()
StartupBegin ==
    /\ CanRun("main")
    /\ spc = "start"
    /\ spc' = "initialising"
    /\ call' = "initialise"
    /\ pc' = [pc EXCEPT !["main"] = "init_setup"]
    /\ running' = "main"
    /\ entry' = [init |-> is_initialised, teardowns |-> teardown_calls,
                 stops |-> stop_calls, ok |-> "none"]
    /\ UNCHANGED <<lifeVars, init_result, run_result, must_cancel, pending, exited>>
    /\ UNCHANGED <<calls, setup_calls, teardown_calls, stop_calls, steps, delivered, interrupted, stops_at_throw>>
    /\ UNCHANGED <<hpc, db_pool, pool_closes, bootVars>>
    /\ UNCHANGED svcVars

\* A startup() that goes on to the pool bootstrap whatever initialise() returned.
StartupCheck_NoExit ==
    /\ CanRun("main")
    /\ spc = "initialising"
    /\ pc["main"] = "idle"
    /\ spc' = "pool"
    /\ bpc' = "called"
    /\ retries' = DefaultRetries
    /\ running' = "main"
    /\ UNCHANGED exited
    /\ UNCHANGED <<attempt, attempts_made, waits, last_wait, last_outcome, cancel_calls, pool>>
    /\ UNCHANGED <<lifeVars, pc, call, init_result, run_result, must_cancel, pending>>
    /\ UNCHANGED <<histVars, hpc, db_pool, pool_closes>>
    /\ UNCHANGED svcVars

\* A startup() that creates the background task before the pool bootstrap.
StartupCheck_TaskFirst ==
    /\ CanRun("main")
    /\ spc = "initialising"
    /\ pc["main"] = "idle"
    /\ IF init_result # "true"
       THEN /\ exited' = TRUE
            /\ spc' = "exited"
            /\ running' = "none"
            /\ UNCHANGED <<bpc, retries, pc>>
       ELSE /\ spc' = "pool"
            /\ bpc' = "called"
            /\ retries' = DefaultRetries
            /\ pc' = [pc EXCEPT !["task"] = "created"]
            /\ running' = "main"
            /\ UNCHANGED exited
    /\ UNCHANGED <<attempt, attempts_made, waits, last_wait, last_outcome, cancel_calls, pool>>
    /\ UNCHANGED <<lifeVars, call, init_result, run_result, must_cancel, pending>>
    /\ UNCHANGED <<histVars, hpc, db_pool, pool_closes>>
    /\ UNCHANGED svcVars

\* if not await SERVICE_APP.initialise(): os._exit(1)
\* app.db_pool = await create_db_pool(DatabaseConfig)
StartupCheck ==
    /\ CanRun("main")
    /\ spc = "initialising"
    /\ pc["main"] = "idle"
    /\ IF init_result # "true"
       THEN /\ exited' = TRUE
            /\ spc' = "exited"
            /\ running' = "none"
            /\ UNCHANGED <<bpc, retries>>
       ELSE /\ spc' = "pool"
            /\ bpc' = "called"
            /\ retries' = DefaultRetries
            /\ running' = "main"
            /\ UNCHANGED exited
    /\ UNCHANGED <<attempt, attempts_made, waits, last_wait, last_outcome, cancel_calls, pool>>
    /\ UNCHANGED <<lifeVars, pc, call, init_result, run_result, must_cancel, pending>>
    /\ UNCHANGED <<histVars, hpc, db_pool, pool_closes>>
    /\ UNCHANGED svcVars

\* app.db_pool = <the pool returned>
\* app.background_task = asyncio.create_task(SERVICE_APP.run())
StartupCreateTask ==
    /\ CanRun("main")
    /\ spc = "pool"
    /\ bpc = "returned"
    /\ db_pool' = "open"
    /\ pc' = [pc EXCEPT !["task"] = "created"]
    /\ spc' = "serving"
    /\ running' = "none"
    /\ UNCHANGED <<lifeVars, call, init_result, run_result, must_cancel, pending, exited>>
    /\ UNCHANGED <<histVars, hpc, pool_closes, bootVars>>
    /\ UNCHANGED svcVars

\* A shutdown() that cancels the background task without awaiting it.
ShutdownBegin_NoAwait ==
    /\ CanRun("hook") /\ running = "none"
    /\ spc = "serving"
    /\ hpc = "idle"
    /\ shutdown_event' = TRUE
    /\ must_cancel' = CancelRequest
    /\ hpc' = "close"
    /\ running' = "hook"
    /\ UNCHANGED <<is_initialised, shutdown_complete>>
    /\ UNCHANGED <<pc, call, init_result, run_result, pending, exited>>
    /\ UNCHANGED <<histVars, spc, db_pool, pool_closes, bootVars>>
    /\ UNCHANGED svcVars

\* SERVICE_APP.shutdown_event.set()
\* if app is not None: await cancel_background_tasks()
ShutdownBegin ==
    /\ CanRun("hook") /\ running = "none"
    /\ spc = "serving"
    /\ hpc = "idle"
    /\ shutdown_event' = TRUE
    /\ must_cancel' = CancelRequest
    /\ IF pc["task"] \in {"none", "done"}
       THEN hpc' = "close" /\ running' = "hook"
       ELSE hpc' = "await_task" /\ running' = "none"
    /\ UNCHANGED <<is_initialised, shutdown_complete>>
    /\ UNCHANGED <<pc, call, init_result, run_result, pending, exited>>
    /\ UNCHANGED <<histVars, spc, db_pool, pool_closes, bootVars>>
    /\ UNCHANGED svcVars

\* await task ends once the task is done; its CancelledError is suppressed
ShutdownTaskDone ==
    /\ CanRun("hook")
    /\ hpc = "await_task"
    /\ pc["task"] = "done"
    /\ hpc' = "close"
    /\ running' = "hook"
    /\ UNCHANGED <<lifeVars, pc, call, init_result, run_result, must_cancel, pending, exited>>
    /\ UNCHANGED <<histVars, spc, db_pool, pool_closes, bootVars>>
    /\ UNCHANGED svcVars

\* await app.db_pool.close()
ShutdownClose ==
    /\ CanRun("hook")
    /\ hpc = "close"
    /\ db_pool' = "closed"
    /\ pool_closes' = pool_closes + 1
    /\ hpc' = "done"
    /\ running' = "none"
    /\ UNCHANGED <<lifeVars, pc, call, init_result, run_result, must_cancel, pending, exited>>
    /\ UNCHANGED <<histVars, spc, bootVars>>
    /\ UNCHANGED svcVars

HookNext ==
    \/ StartupBegin \/ StartupCheck \/ StartupCreateTask
    \/ ShutdownBegin \/ ShutdownTaskDone \/ ShutdownClose

\* The process as the module is imported: SERVICE_APP constructed, no pool,
\* no background task, startup() not yet run.
Init ==
    /\ LifecycleInit
    /\ spc = "start" /\ hpc = "idle" /\ db_pool = "none" /\ pool_closes = 0
    /\ NoBootstrap
    /\ NoTraffic
    /\ NoApp

\* startup() calls create_db_pool before it creates the background task, so
\* the bootstrap never has a task to wait for.
Next == HookNext \/ InitialiseNext \/ StopNext \/ PoolAloneNext \/ TaskNext \/ Interrupt

Spec == Init /\ [][Next]_vars

\* The event loop resumes every coroutine that is ready: the background
\* task, and the after-serving hook once it was invoked.
FairSpec ==
    Spec /\ WF_vars(TaskNext) /\ WF_vars(StopNext)
         /\ WF_vars(ShutdownTaskDone \/ ShutdownClose)

-----------------------------------------------------------------------------
(* The request hooks of the accounts service: acquire_connection           *)
(* (before_request) and release_connection (after_request), around the     *)
(* view function.  The after_request functions run on every response,      *)
(* the one a before_request function returned and the error response for   *)
(* an exception included.                                                  *)

\* How a view function can be marked: not at all, by the decorator
\* route_not_using_db, or with the attribute _no_db set by hand.
RouteKinds == {"plain", "route_not_using_db", "_no_db"}

\* route_not_using_db(func): func._not_using_db = True
Attrs(k) ==
    CASE k = "route_not_using_db" -> {"_not_using_db"}
      [] k = "_no_db" -> {"_no_db"}
      [] OTHER -> {}

\* getattr(view_func, "_no_db", False)
SkipsAcquire(k) == "_no_db" \in Attrs(k)

\* A request arrives; requests are numbered in their order of arrival.
\* acquire_connection runs up to "return" for a view function that skips
\* the database (the view function is entered next), else up to
\* await app.db_pool.acquire(timeout=2.0).
RequestBegin(r) ==
    /\ CanRun("request") /\ running = "none"
    /\ db_pool = "open"
    /\ rpc[r] = "new"
    /\ IF r = 1 THEN TRUE ELSE rpc[r - 1] # "new"
    /\ \E k \in RouteKinds :
          /\ route' = [route EXCEPT ![r] = k]
          /\ rpc' = [rpc EXCEPT ![r] = IF SkipsAcquire(k) THEN "handler" ELSE "acquiring"]
    /\ after_503' = [after_503 EXCEPT ![r] = \E q \in Reqs : response[q] = "503"]
    /\ UNCHANGED <<g_db, holder, response, acquire_outcome, released>>
    /\ UNCHANGED <<lifeVars, ctrlVars, histVars, hookVars, bootVars, healthVars, confVars, appVars, acctVars>>

\* A hook that treats a timeout like any other acquire error.
AcquireResult_TimeoutRaises(r) ==
    /\ CanRun("request") /\ running = "none"
    /\ rpc[r] = "acquiring"
    /\ \/ \E c \in Conns :
             /\ holder[c] = 0
             /\ holder' = [holder EXCEPT ![c] = r]
             /\ g_db' = [g_db EXCEPT ![r] = c]
             /\ acquire_outcome' = [acquire_outcome EXCEPT ![r] = "ok"]
             /\ rpc' = [rpc EXCEPT ![r] = "handler"]
             /\ UNCHANGED response
       \/ \E o \in {"TimeoutError", "error"} :
             /\ acquire_outcome' = [acquire_outcome EXCEPT ![r] = o]
             /\ response' = [response EXCEPT ![r] = "500"]
             /\ rpc' = [rpc EXCEPT ![r] = "done"]
             /\ UNCHANGED <<g_db, holder>>
    /\ UNCHANGED <<route, released, after_503>>
    /\ UNCHANGED <<lifeVars, ctrlVars, histVars, hookVars, bootVars, healthVars, confVars, appVars, acctVars>>

\* await app.db_pool.acquire(timeout=2.0) ends: with a free connection,
\* stored in g.db; with asyncio.TimeoutError, answered 503; or with another
\* exception, which leaves the hook and is answered 500.  In the last two
\* cases the view function is not entered and release_connection finds no
\* g.db.
AcquireResult(r) ==
    /\ CanRun("request") /\ running = "none"
    /\ rpc[r] = "acquiring"
    /\ \/ \E c \in Conns :
             /\ holder[c] = 0
             /\ holder' = [holder EXCEPT ![c] = r]
             /\ g_db' = [g_db EXCEPT ![r] = c]
             /\ acquire_outcome' = [acquire_outcome EXCEPT ![r] = "ok"]
             /\ rpc' = [rpc EXCEPT ![r] = "handler"]
             /\ UNCHANGED response
       \/ /\ acquire_outcome' = [acquire_outcome EXCEPT ![r] = "TimeoutError"]
          /\ response' = [response EXCEPT ![r] = "503"]
          /\ rpc' = [rpc EXCEPT ![r] = "done"]
          /\ UNCHANGED <<g_db, holder>>
       \/ /\ acquire_outcome' = [acquire_outcome EXCEPT ![r] = "error"]
          /\ response' = [response EXCEPT ![r] = "500"]
          /\ rpc' = [rpc EXCEPT ![r] = "done"]
          /\ UNCHANGED <<g_db, holder>>
    /\ UNCHANGED <<route, released, after_503>>
    /\ UNCHANGED <<lifeVars, ctrlVars, histVars, hookVars, bootVars, healthVars, confVars, appVars, acctVars>>

\* An after_request hook that returns the response without releasing.
HandlerDone_NoRelease(r) ==
    /\ CanRun("request") /\ running = "none"
    /\ rpc[r] = "handler"
    /\ response' = [response EXCEPT ![r] = "handler"]
    /\ rpc' = [rpc EXCEPT ![r] = "done"]
    /\ UNCHANGED <<route, g_db, holder, acquire_outcome, released, after_503>>
    /\ UNCHANGED <<lifeVars, ctrlVars, histVars, hookVars, bootVars, healthVars, confVars, appVars, acctVars>>

\* The view function ends with its response; release_connection runs:
\* db = getattr(g, "db", None); if db is not None: await app.db_pool.release(db)
HandlerDone(r) ==
    /\ CanRun("request") /\ running = "none"
    /\ rpc[r] = "handler"
    /\ response' = [response EXCEPT ![r] = "handler"]
    /\ rpc' = [rpc EXCEPT ![r] = IF g_db[r] # 0 THEN "releasing" ELSE "done"]
    /\ UNCHANGED <<route, g_db, holder, acquire_outcome, released, after_503>>
    /\ UNCHANGED <<lifeVars, ctrlVars, histVars, hookVars, bootVars, healthVars, confVars, appVars, acctVars>>

\* await app.db_pool.release(db) ends; return response
ReleaseDone(r) ==
    /\ CanRun("request") /\ running = "none"
    /\ rpc[r] = "releasing"
    /\ holder' = [holder EXCEPT ![g_db[r]] = 0]
    /\ released' = [released EXCEPT ![r] = Append(@, g_db[r])]
    /\ rpc' = [rpc EXCEPT ![r] = "done"]
    /\ UNCHANGED <<route, g_db, response, acquire_outcome, after_503>>
    /\ UNCHANGED <<lifeVars, ctrlVars, histVars, hookVars, bootVars, healthVars, confVars, appVars, acctVars>>

RequestNext ==
    \E r \in Reqs :
        RequestBegin(r) \/ AcquireResult(r) \/ HandlerDone(r) \/ ReleaseDone(r)

\* The process once startup() has returned: the lifecycle initialised, the
\* pool open (here produced by the first attempt), the run() task created.
ServiceUp ==
    /\ is_initialised = TRUE /\ shutdown_event = FALSE /\ shutdown_complete = FALSE
    /\ pc = [main |-> "idle", task |-> "created"]
    /\ call = "none" /\ running = "none"
    /\ init_result = "true" /\ run_result = "none"
    /\ must_cancel = FALSE /\ pending = "none" /\ exited = FALSE
    /\ calls = 0 /\ setup_calls = 1 /\ teardown_calls = 0 /\ stop_calls = 0
    /\ steps = 0 /\ delivered = "none" /\ interrupted = FALSE
    /\ entry = [init |-> FALSE, teardowns |-> 0, stops |-> 0, ok |-> "true"]
    /\ stops_at_throw = 0
    /\ spc = "serving" /\ hpc = "idle" /\ db_pool = "open" /\ pool_closes = 0
    /\ bpc = "returned" /\ retries = DefaultRetries
    /\ attempt = 1 /\ attempts_made = 1 /\ waits = 0 /\ last_wait = 0
    /\ last_outcome = "ok" /\ cancel_calls = 0 /\ pool = 1
    /\ AppServing

ServingStart == ServiceUp /\ NoTraffic

\* run() while the service is serving: nothing cancels the task before the
\* after-serving hook.
ServingTaskNext ==
    \/ TaskStart \/ LoopCheck \/ MainLoopResume \/ SleepResume
    \/ RunInterrupted \/ RunFinally \/ RunExit

\* Requests are served while the background task runs.
RequestSpecNext == RequestNext \/ ServingTaskNext \/ TaskStopNext \/ Interrupt

RequestSpec == ServingStart /\ [][RequestSpecNext]_vars

-----------------------------------------------------------------------------
(* The shared StateObject: the data access layer operations that write it  *)
(* (UserDataAccessLayer) and the health check that reads it                *)
(* (HealthApiView.health).  Each runs as a coroutine of a request; an      *)
(* operation is suspended in every await of the store.                     *)

DalOps == {"check_user_exists", "create_user", "get_by_email_or_username"}

\* The name under which the coroutine of request h holds the event loop
Coroutine(h) == ToString(h)

\* ComponentDegradationLevel
NONE == "none"
PART_DEGRADED == "partial"
FULLY_DEGRADED == "fully_degraded"

Upd(c, l, d) == [comp |-> c, level |-> l, detail |-> d]

\* How an await of the store ends: with a row, with no row (or the end of a
\* statement), or with an exception.  PostgresConnectionError is a
\* PostgresError.
StoreOutcomes == {"row", "no_row", "PostgresConnectionError", "PostgresError", "Exception"}

\* A check_user_exists whose last except clause records nothing.
CheckUpdate_PostgresOnly(o) ==
    CASE o \in {"PostgresConnectionError", "PostgresError"} ->
            Upd("database", FULLY_DEGRADED, "Database error while checking user existence")
      [] OTHER -> NoUpd

\* check_user_exists: what its except clauses write
CheckUpdate(o) ==
    CASE o \in {"PostgresConnectionError", "PostgresError"} ->
            Upd("database", FULLY_DEGRADED, "Database error while checking user existence")
      [] o = "Exception" ->
            Upd("database", PART_DEGRADED, "Unexpected error checking user existence")
      [] OTHER -> NoUpd

\* create_user: what its except clauses write
CreateUpdate(o) ==
    CASE o = "PostgresConnectionError" -> Upd("database", FULLY_DEGRADED, "Database unreachable")
      [] o = "PostgresError" -> Upd("database", FULLY_DEGRADED, "Database operation failed")
      [] o = "Exception" ->
            Upd("service", FULLY_DEGRADED, "Service experienced unexpected failure")
      [] OTHER -> NoUpd

\* A reset to operational that overwrites FULLY_DEGRADED too.
Operational_Unguarded(d) ==
    Upd("database", NONE, d)

\* if database_health != FULLY_DEGRADED: database_health = NONE; ..._state_str = d
Operational(d) ==
    IF database_health # FULLY_DEGRADED THEN Upd("database", NONE, d) ELSE NoUpd

\* get_by_email_or_username: what it writes after the fetch
GetUpdate(o) ==
    CASE o = "row" -> Operational("Database operational")
      [] o = "no_row" -> Operational("Database operational (no match)")
      [] o = "PostgresConnectionError" -> Upd("database", FULLY_DEGRADED, "Database unreachable")
      [] o = "PostgresError" -> Upd("database", PART_DEGRADED, "Database operation failed")
      [] OTHER -> Upd("service", FULLY_DEGRADED, "Service experienced unexpected failure")

\* The coroutine goes on from a resumed await: through the update u, if
\* there is one, to position next.  Nothing suspends before next is reached.
Proceed(h, u, next) ==
    IF u = NoUpd
    THEN /\ opc' = [opc EXCEPT ![h] = next]
         /\ running' = "none"
         /\ UNCHANGED <<upd, cont, updates>>
    ELSE /\ opc' = [opc EXCEPT ![h] = "write_level"]
         /\ upd' = [upd EXCEPT ![h] = u]
         /\ cont' = [cont EXCEPT ![h] = next]
         /\ updates' = updates + 1
         /\ running' = Coroutine(h)

\* An await of the store ends with outcome o in coroutine h; r is what the
\* operation it belongs to returns once its except clause or the statements
\* after the await have run ("none": it goes on to its next await).  For
\* the check_user_exists inside create_user that finds a row, both
\* operations return one after the other and r is create_user's None.
Ended(h, o, r) ==
    /\ store_outcome' = [store_outcome EXCEPT ![h] = o]
    /\ ret' = [ret EXCEPT ![h] = r]

\* The four fields of the StateObject.
Snapshot ==
    <<service_health, service_health_state_str, database_health, database_health_state_str>>

\* A data access layer operation is called and suspends in its first await:
\* the fetch of check_user_exists and of get_by_email_or_username, the
\* transaction of create_user.
DalCall(h) ==
    /\ CanRun(Coroutine(h)) /\ running = "none"
    /\ opc[h] = "idle"
    /\ IF h = 1 THEN TRUE ELSE opc[h - 1] # "idle"
    /\ \E o \in DalOps :
          /\ op' = [op EXCEPT ![h] = o]
          /\ opc' = [opc EXCEPT ![h] =
                        CASE o = "check_user_exists" -> "check_fetch"
                          [] o = "create_user" -> "create_begin"
                          [] OTHER -> "get_fetch"]
    /\ UNCHANGED <<stateVars, upd, cont, stamp, updates, seen, store_outcome, before, ret>>
    /\ UNCHANGED <<lifeVars, ctrlVars, histVars, hookVars, bootVars, reqVars, confVars, appVars, acctVars>>

\* check_user_exists called on its own: await self._db.fetchrow(...) ends
CheckUserExistsFetched(h) ==
    /\ CanRun(Coroutine(h)) /\ running = "none"
    /\ opc[h] = "check_fetch"
    /\ \E o \in StoreOutcomes :
          /\ Proceed(h, CheckUpdate(o), "done")
          /\ Ended(h, o, IF o = "row" THEN "row" ELSE "None")
          /\ before' = [before EXCEPT ![h] = IF CheckUpdate(o) = NoUpd THEN NoSnapshot ELSE Snapshot]
    /\ UNCHANGED <<stateVars, op, stamp, seen>>
    /\ UNCHANGED <<lifeVars, pc, call, init_result, run_result, must_cancel, pending, exited>>
    /\ UNCHANGED <<histVars, hookVars, bootVars, reqVars, confVars, appVars, acctVars>>

\* create_user: async with self._db.transaction() is entered (or fails), and
\* the health is marked operational before check_user_exists is awaited
CreateUserBegun(h) ==
    /\ CanRun(Coroutine(h)) /\ running = "none"
    /\ opc[h] = "create_begin"
    /\ \E o \in StoreOutcomes \ {"row"} :
          /\ IF o = "no_row"
             THEN Proceed(h, Operational("Database operational"), "create_check")
             ELSE Proceed(h, CreateUpdate(o), "done")
          /\ Ended(h, o, IF o = "no_row" THEN "none" ELSE "None")
    /\ UNCHANGED before
    /\ UNCHANGED <<stateVars, op, stamp, seen>>
    /\ UNCHANGED <<lifeVars, pc, call, init_result, run_result, must_cancel, pending, exited>>
    /\ UNCHANGED <<histVars, hookVars, bootVars, reqVars, confVars, appVars, acctVars>>

\* create_user: existing = await self.check_user_exists(...) ends; a row is a
\* duplicate (return None), anything else goes on to the INSERT
CreateUserChecked(h) ==
    /\ CanRun(Coroutine(h)) /\ running = "none"
    /\ opc[h] = "create_check"
    /\ \E o \in StoreOutcomes :
          /\ Proceed(h, CheckUpdate(o), IF o = "row" THEN "done" ELSE "create_insert")
          /\ Ended(h, o, "None")
    /\ UNCHANGED before
    /\ UNCHANGED <<stateVars, op, stamp, seen>>
    /\ UNCHANGED <<lifeVars, pc, call, init_result, run_result, must_cancel, pending, exited>>
    /\ UNCHANGED <<histVars, hookVars, bootVars, reqVars, confVars, appVars, acctVars>>

\* create_user: await self._db.execute(INSERT ...) ends
CreateUserInserted(h) ==
    /\ CanRun(Coroutine(h)) /\ running = "none"
    /\ opc[h] = "create_insert"
    /\ \E o \in StoreOutcomes \ {"row"} :
          /\ Proceed(h, CreateUpdate(o), "done")
          /\ Ended(h, o, IF o = "no_row" THEN "user_id" ELSE "None")
    /\ UNCHANGED before
    /\ UNCHANGED <<stateVars, op, stamp, seen>>
    /\ UNCHANGED <<lifeVars, pc, call, init_result, run_result, must_cancel, pending, exited>>
    /\ UNCHANGED <<histVars, hookVars, bootVars, reqVars, confVars, appVars, acctVars>>

\* get_by_email_or_username: await self._db.fetchrow(...) ends
GetUserFetched(h) ==
    /\ CanRun(Coroutine(h)) /\ running = "none"
    /\ opc[h] = "get_fetch"
    /\ \E o \in StoreOutcomes :
          /\ Proceed(h, GetUpdate(o), "done")
          /\ Ended(h, o, IF o = "row" THEN "row" ELSE "None")
          /\ before' = [before EXCEPT ![h] = IF GetUpdate(o) = NoUpd THEN NoSnapshot ELSE Snapshot]
    /\ UNCHANGED <<stateVars, op, stamp, seen>>
    /\ UNCHANGED <<lifeVars, pc, call, init_result, run_result, must_cancel, pending, exited>>
    /\ UNCHANGED <<histVars, hookVars, bootVars, reqVars, confVars, appVars, acctVars>>

\* A writer that is suspended between the two assignments of an update.
WriteLevel_Suspends(h) ==
    /\ CanRun(Coroutine(h))
    /\ opc[h] = "write_level"
    /\ IF upd[h].comp = "database"
       THEN /\ database_health' = upd[h].level
            /\ stamp' = [stamp EXCEPT !.database_health = updates]
            /\ UNCHANGED service_health
       ELSE /\ service_health' = upd[h].level
            /\ stamp' = [stamp EXCEPT !.service_health = updates]
            /\ UNCHANGED database_health
    /\ opc' = [opc EXCEPT ![h] = "write_detail"]
    /\ running' = "none"
    /\ UNCHANGED <<service_health_state_str, database_health_state_str>>
    /\ UNCHANGED <<op, upd, cont, updates, seen, store_outcome, before, ret>>
    /\ UNCHANGED <<lifeVars, pc, call, init_result, run_result, must_cancel, pending, exited>>
    /\ UNCHANGED <<histVars, hookVars, bootVars, reqVars, confVars, appVars, acctVars>>

\* self._state_object.<component>_health = <level>
WriteLevel(h) ==
    /\ CanRun(Coroutine(h))
    /\ opc[h] = "write_level"
    /\ IF upd[h].comp = "database"
       THEN /\ database_health' = upd[h].level
            /\ stamp' = [stamp EXCEPT !.database_health = updates]
            /\ UNCHANGED service_health
       ELSE /\ service_health' = upd[h].level
            /\ stamp' = [stamp EXCEPT !.service_health = updates]
            /\ UNCHANGED database_health
    /\ opc' = [opc EXCEPT ![h] = "write_detail"]
    /\ running' = Coroutine(h)
    /\ UNCHANGED <<service_health_state_str, database_health_state_str>>
    /\ UNCHANGED <<op, upd, cont, updates, seen, store_outcome, before, ret>>
    /\ UNCHANGED <<lifeVars, pc, call, init_result, run_result, must_cancel, pending, exited>>
    /\ UNCHANGED <<histVars, hookVars, bootVars, reqVars, confVars, appVars, acctVars>>

\* self._state_object.<component>_health_state_str = <detail>, then on to
\* the next await or to the return
WriteDetail(h) ==
    /\ CanRun(Coroutine(h))
    /\ opc[h] = "write_detail"
    /\ IF upd[h].comp = "database"
       THEN /\ database_health_state_str' = upd[h].detail
            /\ stamp' = [stamp EXCEPT !.database_health_state_str = stamp.database_health]
            /\ UNCHANGED service_health_state_str
       ELSE /\ service_health_state_str' = upd[h].detail
            /\ stamp' = [stamp EXCEPT !.service_health_state_str = stamp.service_health]
            /\ UNCHANGED database_health_state_str
    /\ opc' = [opc EXCEPT ![h] = cont[h]]
    /\ upd' = [upd EXCEPT ![h] = NoUpd]
    /\ running' = "none"
    /\ UNCHANGED <<service_health, database_health>>
    /\ before' = [before EXCEPT ![h] = NoSnapshot]
    /\ UNCHANGED <<op, cont, updates, seen, store_outcome, ret>>
    /\ UNCHANGED <<lifeVars, pc, call, init_result, run_result, must_cancel, pending, exited>>
    /\ UNCHANGED <<histVars, hookVars, bootVars, reqVars, confVars, appVars, acctVars>>

\* ServiceDegradationStatus: CRITICAL if any issue has the status
\* FULLY_DEGRADED, else DEGRADED; HEALTHY without issues
StatusOf(issues) ==
    IF issues # <<>>
    THEN IF \E i \in 1 .. Len(issues) : issues[i].status = FULLY_DEGRADED
         THEN "critical"
         ELSE "degraded"
    ELSE "healthy"

\* The issue health() appends for the database
DatabaseIssues ==
    IF database_health # NONE
    THEN <<[component |-> "database", status |-> database_health]>>
    ELSE <<>>

\* health(): no await inside, so it runs as one step.  The database issue is
\* built from database_health.value and the detail string.  The service
\* issue is built from service_health.view: ComponentDegradationLevel has no
\* attribute view, so a service level other than NONE ends the call with
\* AttributeError before a status is computed.
Health(h) ==
    /\ CanRun(Coroutine(h)) /\ running = "none"
    /\ opc[h] = "idle"
    /\ IF h = 1 THEN TRUE ELSE opc[h - 1] # "idle"
    /\ op' = [op EXCEPT ![h] = "health"]
    /\ opc' = [opc EXCEPT ![h] = "done"]
    /\ seen' = [seen EXCEPT ![h] =
                  [status |-> IF service_health # NONE
                              THEN "AttributeError"
                              ELSE StatusOf(DatabaseIssues),
                   database |-> database_health,
                   service |-> service_health,
                   pair |-> IF database_health # NONE
                            THEN <<stamp.database_health, stamp.database_health_state_str>>
                            ELSE <<0, 0>>]]
    /\ UNCHANGED <<stateVars, upd, cont, stamp, updates, store_outcome, before, ret>>
    /\ UNCHANGED <<lifeVars, ctrlVars, histVars, hookVars, bootVars, reqVars, confVars, appVars, acctVars>>

HealthNext ==
    \E h \in Reqs :
        \/ DalCall(h) \/ CheckUserExistsFetched(h)
        \/ CreateUserBegun(h) \/ CreateUserChecked(h) \/ CreateUserInserted(h)
        \/ GetUserFetched(h)
        \/ WriteLevel(h) \/ WriteDetail(h)
        \/ Health(h)

\* Request handlers and health checks on the running service
HealthSpec == ServingStart /\ [][HealthNext]_vars

-----------------------------------------------------------------------------
(* Properties of the lifecycle *)

C2_TeardownOnce == teardown_calls <= 1

\* C3: no _main_loop step begins in a state where shutdown_event is set,
\* and once the signal is set while run() is in its loop, the loop exits
\* and stop() runs, so that shutdown_complete becomes set and run() ends.
C3_SignalCheckedBeforeStep ==
    /\ [][steps' > steps => ~shutdown_event]_vars
    /\ (pc["task"] \in {"loop_check", "in_main_loop", "in_sleep"} /\ shutdown_event)
          ~> (pc["task"] = "done" /\ shutdown_complete)

C3_Witness ==
    /\ pc["task"] = "done" /\ run_result = "returned"
    /\ steps >= 1 /\ ~interrupted /\ delivered = "none"
    /\ shutdown_complete

C5_RunRefusesUninitialised ==
    [][(pc["task"] = "created" /\ pc'["task"] # "created"
            /\ ~is_initialised /\ ~must_cancel) =>
         /\ pc'["task"] = "done"
         /\ run_result' = "returned"
         /\ UNCHANGED <<is_initialised, shutdown_event, shutdown_complete>>
         /\ UNCHANGED <<steps, stop_calls, teardown_calls>>]_vars

C5_Witness ==
    /\ pc["task"] = "done" /\ run_result = "returned" /\ delivered = "none"
    /\ ~is_initialised /\ ~shutdown_event /\ ~shutdown_complete
    /\ steps = 0 /\ stop_calls = 0

\* C6: Stopped is terminal: once stop() has completed, no subclass setup is
\* executed, the lifecycle is not (re)marked initialised and no _main_loop
\* step is executed.
C6_StoppedIsTerminal ==
    [][shutdown_complete =>
         /\ setup_calls' = setup_calls
         /\ is_initialised' = is_initialised
         /\ steps' = steps]_vars

\* C7: a cancellation delivered while run() is suspended in the application
\* step or in the sleep still executes stop() (teardown run,
\* shutdown_complete set) and then leaves run() as a cancellation; run()
\* never returns normally after it.
C7_CancellationPropagates ==
    delivered \in {"main_loop", "sleep"} =>
        /\ run_result # "returned"
        /\ pc["task"] = "done" =>
              /\ run_result = "cancelled"
              /\ shutdown_event /\ shutdown_complete
              /\ stop_calls >= stops_at_throw + 1
              /\ teardown_calls >= stops_at_throw + 1

C7_Witness ==
    /\ pc["task"] = "done" /\ delivered = "sleep" /\ run_result = "cancelled"
    /\ shutdown_complete /\ teardown_calls = 1

\* C8: a KeyboardInterrupt raised inside the run loop is a shutdown request:
\* the signal is set before stop() is entered, stop() runs to completion and
\* run() returns normally.
C8_InterruptIsShutdown ==
    interrupted =>
        /\ pc["task"] \in {"finally", "stop_set"} => shutdown_event
        /\ pc["task"] = "done" =>
              /\ run_result = "returned"
              /\ shutdown_event /\ shutdown_complete
              /\ stop_calls >= stops_at_throw + 1
              /\ teardown_calls >= stops_at_throw + 1

C8_Witness ==
    /\ interrupted /\ pc["task"] = "done" /\ run_result = "returned"
    /\ shutdown_complete /\ teardown_calls = 1

-----------------------------------------------------------------------------
(* Properties of the startup hook and of the pool bootstrap *)

\* C9: in startup() the pool bootstrap begins only after initialise() has
\* returned True, the background run() task is created only after
\* create_db_pool has returned a pool, and when initialise() returns False
\* the process is terminated with neither the bootstrap nor the main loop
\* ever started.
C9_StartupOrder ==
    /\ (bpc # "idle" \/ attempts_made > 0) => init_result = "true" /\ is_initialised
    /\ pc["task"] # "none" => bpc = "returned" /\ db_pool # "none" /\ spc = "serving"
    /\ steps > 0 => pc["task"] # "none"
    /\ init_result = "false" =>
          /\ spc \in {"initialising", "exited"}
          /\ bpc = "idle" /\ attempts_made = 0
          /\ pc["task"] = "none" /\ steps = 0
    /\ spc = "exited" => exited /\ init_result = "false"

C9_Witness ==
    /\ pc["task"] = "in_sleep" /\ steps = 1 /\ db_pool = "open"
    /\ init_result = "true" /\ attempts_made = 2 /\ bpc = "returned"

TerminalPath == {"terminal", "await_task", "exit", "exited"}

C38_NoRetriesNoAttempt ==
    /\ [](retries < 1 =>
            /\ attempts_made = 0 /\ waits = 0 /\ last_outcome = "none"
            /\ pool = 0
            /\ bpc \in {"idle", "called"} \cup TerminalPath
            /\ cancel_calls = IF bpc \in {"idle", "called", "terminal"} THEN 0 ELSE 1
            /\ exited <=> bpc = "exited")
    /\ [][(retries < 1 /\ bpc = "called" /\ bpc' # "called") => bpc' = "terminal"]_vars
    /\ (retries < 1 /\ bpc = "terminal") ~> (exited /\ cancel_calls = 1 /\ pc["task"] \in {"none", "done"})

C38_Witness ==
    /\ retries = -1 /\ bpc = "exited" /\ exited /\ cancel_calls = 1
    /\ attempts_made = 0 /\ waits = 0 /\ pool = 0
    /\ pc["task"] = "done" /\ run_result = "cancelled"

C13_SuccessReturnsPool ==
    /\ [](bpc = "returned" =>
            /\ last_outcome = "ok"
            /\ pool = attempt /\ 1 <= attempt /\ attempt <= retries
            /\ attempts_made = attempt
            /\ waits = attempt - 1
            /\ cancel_calls = 0
            /\ ~exited)
    /\ [][bpc = "connecting" /\ last_outcome' = "ok" =>
            (/\ bpc' = "returned"
             /\ pool' = attempt
             /\ UNCHANGED <<attempts_made, waits, cancel_calls, exited>>)]_vars
    /\ [][bpc = "returned" => UNCHANGED <<bpc, pool, attempts_made, waits, cancel_calls, exited>>]_vars

C13_Witness ==
    /\ bpc = "returned" /\ pool = 3 /\ attempts_made = 3 /\ waits = 2
    /\ cancel_calls = 0 /\ ~exited

\* C14: the wait after failed attempt k < retries is d_k + jitter with
\* d_k = base_delay * 2^(k-1) and 0 <= jitter <= 0.3 * d_k: at least d_k, at
\* most 1.3 * d_k, and d_k doubles from one attempt to the next.
C14_BackoffBounds ==
    /\ bpc = "sleeping" =>
          /\ attempt < retries
          /\ Delay(attempt) = BaseDelay * 2^(attempt - 1)
          /\ last_wait >= Delay(attempt)
          /\ 10 * last_wait <= 13 * Delay(attempt)
          /\ attempt >= 2 => Delay(attempt) = 2 * Delay(attempt - 1)
    /\ waits = 0 => last_wait = 0

C14_Witness ==
    bpc = "sleeping" /\ attempt = 2 /\ waits = 2 /\ last_wait = 26

C35_NoTaskOnStartupFailure ==
    /\ [](/\ (spc = "pool" /\ bpc \in TerminalPath) =>
                (/\ pc["task"] = "none" /\ ~must_cancel
                 /\ bpc # "await_task"
                 /\ steps = 0 /\ teardown_calls = 0)
          /\ pc["task"] # "none" => (bpc = "returned" /\ pool >= 1 /\ last_outcome = "ok"))
    /\ [][(spc = "pool" /\ bpc = "terminal" /\ bpc' # "terminal") =>
            (/\ cancel_calls' = cancel_calls + 1
             /\ must_cancel' = must_cancel /\ pc' = pc
             /\ bpc' = "exit")]_vars

C35_Witness ==
    /\ spc = "pool" /\ bpc = "exited" /\ exited /\ cancel_calls = 1
    /\ last_outcome = "InvalidPasswordError" /\ attempts_made = 2
    /\ pc["task"] = "none" /\ ~must_cancel

\* The hook is waiting for a background task it has just cancelled.
HookCancelled == hpc = "await_task"

\* The task has ended after one teardown, with shutdown_complete set, and
\* the hook, having absorbed the cancellation, goes on to close the pool.
CleanShutdown ==
    /\ pc["task"] = "done" /\ teardown_calls = 1 /\ shutdown_complete
    /\ hpc \in {"close", "done"} /\ ~exited

\* C34: once the after-serving hook was invoked while the background task
\* exists, the task eventually ends with the teardown executed exactly once
\* and shutdown_complete set, the hook absorbing the cancellation; a
\* cancellation delivered before the first step of run() included.
C34_ShutdownTearsDownOnce == HookCancelled ~> CleanShutdown

\* The same for a task that had taken its first step when the hook was
\* invoked.
C34_AfterFirstStep == (HookCancelled /\ delivered # "start" /\ pc["task"] # "created") ~> CleanShutdown

-----------------------------------------------------------------------------
(* Properties of the request hooks *)

C16_TimeoutIs503 ==
    /\ [](\A r \in Reqs :
            /\ acquire_outcome[r] = "TimeoutError" =>
                  /\ response[r] = "503" /\ rpc[r] = "done"
                  /\ g_db[r] = 0 /\ released[r] = <<>>
                  /\ \A c \in Conns : holder[c] # r
            /\ response[r] = "503" => acquire_outcome[r] = "TimeoutError")
    /\ [][\A r \in Reqs :
            (acquire_outcome[r] # "TimeoutError" /\ acquire_outcome'[r] = "TimeoutError") =>
                (/\ UNCHANGED <<lifeVars, pc, call, exited, hookVars, bootVars, holder>>
                 /\ \A q \in Reqs \ {r} :
                       /\ rpc'[q] = rpc[q] /\ g_db'[q] = g_db[q]
                       /\ response'[q] = response[q]
                       /\ acquire_outcome'[q] = acquire_outcome[q]
                       /\ released'[q] = released[q])]_vars

C16_Witness ==
    \E r, q \in Reqs :
        /\ response[r] = "503" /\ rpc[r] = "done"
        /\ after_503[q] /\ rpc[q] = "done" /\ response[q] = "handler"
        /\ acquire_outcome[q] = "ok" /\ released[q] = <<g_db[q]>>
        /\ ~exited /\ db_pool = "open" /\ pc["task"] = "in_sleep"

\* C18: a request routed to a view function decorated with
\* route_not_using_db acquires no connection in the before-request hook and
\* releases none.
C18_DecoratedRouteSkipsAcquire ==
    \A r \in Reqs :
        route[r] = "route_not_using_db" =>
            /\ rpc[r] # "acquiring"
            /\ acquire_outcome[r] = "none"
            /\ g_db[r] = 0
            /\ released[r] = <<>>

-----------------------------------------------------------------------------
(* Properties of the health state *)

\* C19: no reader observes a torn (level, detail) pair: whenever another
\* coroutine can run, the level and the detail of each component were
\* written by the same update (or are both the initial values), a writer
\* between its two assignments holds the event loop, and the pair health()
\* read has one writer.
C19_NoTornPair ==
    /\ running = "none" =>
          /\ stamp.database_health = stamp.database_health_state_str
          /\ stamp.service_health = stamp.service_health_state_str
    /\ \A h \in Reqs :
          /\ opc[h] = "write_detail" => running = Coroutine(h)
          /\ seen[h].pair[1] = seen[h].pair[2]

C19_Witness ==
    \E h \in Reqs :
        /\ op[h] = "health" /\ opc[h] = "done"
        /\ seen[h].database = PART_DEGRADED /\ seen[h].pair = <<2, 2>>
        /\ \E w \in Reqs : opc[w] \notin {"idle", "done"}

\* C20: the status the health check reports is critical iff the service or
\* the database level is FULLY_DEGRADED, otherwise degraded iff one of them
\* is not NONE, otherwise healthy.
C20_AggregateStatus ==
    \A h \in Reqs :
        (op[h] = "health" /\ opc[h] = "done") =>
            seen[h].status =
                IF FULLY_DEGRADED \in {seen[h].service, seen[h].database} THEN "critical"
                ELSE IF {seen[h].service, seen[h].database} # {NONE} THEN "degraded"
                ELSE "healthy"


\* The last _initialise() met one of the three configuration failures.
ConfigFailed ==
    /\ setup.outcome # "none"
    /\ \/ setup.flag \notin truths \cup falses
       \/ ~setup.path /\ setup.flag \in truths
       \/ setup.raises

\* C24: when the startup configuration fails (invalid file-required flag,
\* required file path missing, process_config raising), _initialise returns
\* False with no route registered, startup() ends the process before
\* create_db_pool is called or the background task is created, no main loop
\* step runs, and no request can be served.
C24_NoServiceAfterConfigFailure ==
    ConfigFailed =>
        /\ ~routes_registered
        /\ ~is_initialised /\ init_result # "true"
        /\ spc \in {"initialising", "exited"} /\ (spc = "exited" <=> exited)
        /\ bpc = "idle" /\ attempts_made = 0 /\ db_pool = "none"
        /\ pc["task"] = "none" /\ steps = 0
        /\ ~ENABLED RequestNext

C24_Witness ==
    /\ ConfigFailed /\ setup.outcome = "config_error"
    /\ init_result = "false"
    /\ spc = "exited" /\ exited

\* C21: in every health state the health check completes with a response
\* that reports a status (it does not raise), and it reports no issues
\* (status healthy) exactly when both levels it read were NONE.
C21_HealthAlwaysResponds ==
    \A h \in Reqs :
        (op[h] = "health" /\ opc[h] = "done") =>
            /\ seen[h].status \in {"healthy", "degraded", "critical"}
            /\ (seen[h].status = "healthy")
                  <=> (seen[h].database = NONE /\ seen[h].service = NONE)

StoreExceptions == {"PostgresConnectionError", "PostgresError", "Exception"}

Degraded == {PART_DEGRADED, FULLY_DEGRADED}

\* The await of coroutine h ended in a domain outcome: check_user_exists
\* found the user signup_with_password asks about (duplicate account);
\* get_by_email_or_username found no user (unknown identifier) or found the
\* user whose password or is_active flag login_with_password then rejects.
DomainOutcome(h) ==
    \/ op[h] = "check_user_exists" /\ store_outcome[h] = "row"
    \/ op[h] = "get_by_email_or_username" /\ store_outcome[h] \in {"row", "no_row"}

\* Coroutine h returns from its operation in this step.
Returns(h) == opc[h] # "done" /\ opc'[h] = "done"

\* The health state when the await ended after which h returns in this
\* step: the state of this step, or the one recorded before h's writes.
Prior(h) == IF opc[h] = "write_detail" THEN before[h] ELSE Snapshot

\* C22 as stated: an operation that ends in a domain outcome returns with
\* the four fields of the health state as they were when its await ended.
C22_DomainOutcomeFrame ==
    [][\A h \in Reqs : (Returns(h) /\ DomainOutcome(h)') => (Snapshot' = Prior(h))]_vars

\* C22: a domain outcome never degrades the health state.  The service
\* level and detail stay as they were; a duplicate found by
\* check_user_exists leaves the database level and detail as they were too;
\* get_by_email_or_username leaves them as they were when the level is
\* FULLY_DEGRADED and otherwise sets the level to NONE and the detail to
\* "Database operational" (user found) or "Database operational (no match)".
C22_DomainOutcomeEffect ==
    [][\A h \in Reqs : (Returns(h) /\ DomainOutcome(h)') =>
          (/\ service_health' = Prior(h)[1]
           /\ service_health_state_str' = Prior(h)[2]
           /\ IF op[h] = "check_user_exists" \/ Prior(h)[3] = FULLY_DEGRADED
              THEN /\ database_health' = Prior(h)[3]
                   /\ database_health_state_str' = Prior(h)[4]
              ELSE /\ database_health' = NONE
                   /\ database_health_state_str' =
                         (IF store_outcome'[h] = "row"
                          THEN "Database operational"
                          ELSE "Database operational (no match)"))]_vars

C22_Witness ==
    \E h \in Reqs :
        /\ op[h] = "get_by_email_or_username" /\ opc[h] = "write_detail"
        /\ store_outcome[h] = "no_row"
        /\ before[h][3] = PART_DEGRADED
        /\ database_health = NONE

C36_FullyDegradedSticky ==
    [][(database_health = FULLY_DEGRADED) => (database_health' = FULLY_DEGRADED)]_vars

\* The same for the paths on which the store call succeeds.
C36_StickyOnSuccess ==
    [][(/\ database_health = FULLY_DEGRADED
        /\ \A h \in DOMAIN opc : opc[h] = "write_level" => store_outcome[h] \in {"row", "no_row"})
            => (database_health' = FULLY_DEGRADED)]_vars

-----------------------------------------------------------------------------
(* The configuration resolver (Configuration)                              *)
(*                                                                         *)
(* A Python value is its type name and its text, V(t, v).  The raw strings *)
(* a source can hold are drawn from RawStrings; int(), float(), str(),     *)
(* str.strip() and str.lower() are tabulated over the texts that can       *)
(* occur.  Every item of ConfigItemDataType has a reader, so the           *)
(* "Unsupported type" branch of _read_configuration is never taken.        *)

Str(s) == V("str", s)

True == V("bool", "True")

False == V("bool", "False")

ItemTypes == {"bool", "float", "int", "string", "uint"}

\* Strings a source can hold for an item.
RawStrings == {"Off", " on ", "YES", "maybe", "-3", "2.5"}

\* os.getenv(env_var): None or the variable's string.
EnvValues == {NoneV} \cup {Str(s) : s \in RawStrings}

\* The option's text in the file, None for NoOptionError / NoSectionError;
\* configparser strips the whitespace around a value.
FileValues == {NoneV} \cup {Str(s) : s \in RawStrings \ {" on "}}

\* default_value of an item.
Defaults == {NoneV, Str("12"), True}

\* valid_values of a restricted string item.
ValidValues == {"12", "Off"}

\* The items of the layout in the order get_sections / get_section yield them.
SectionOf(k) == IF k = 1 THEN "logging" ELSE "database"

ItemName(k) == "item" \o ToString(k)

Strip(s) == IF s = " on " THEN "on" ELSE s

Lower(s) == IF s = "Off" THEN "off" ELSE IF s = "YES" THEN "yes" ELSE s

\* int(value) succeeds
CanInt(v) == v.t \in {"int", "bool"} \/ (v.t = "str" /\ v.v \in {"12", "-3"})

\* int(value)
IntOf(v) ==
    IF v.t = "bool" THEN V("int", IF v = True THEN "1" ELSE "0")
    ELSE V("int", v.v)

\* value < 0, for an int
Negative(v) == v.v = "-3"

\* float(value) succeeds
CanFloat(v) == v.t \in {"float", "int", "bool"} \/ (v.t = "str" /\ v.v \in {"12", "-3", "2.5"})

\* float(value)
FloatOf(v) ==
    IF v.t = "bool" THEN V("float", IF v = True THEN "1.0" ELSE "0.0")
    ELSE IF v.t = "float" \/ v.v = "2.5" THEN V("float", v.v)
    ELSE V("float", v.v \o ".0")

TrueStrings == {"true", "1", "yes", "on"}

FalseStrings == {"false", "0", "no", "off"}

Returned(v) == [ok |-> TRUE, value |-> v, error |-> NoError]

Raised(e) == [ok |-> FALSE, value |-> Unset, error |-> e]

\* ValueError(f"[ConfigError] ... '{section}::{item}' ... '{value}'")
ConfigError(what, it, v) ==
    [type |-> "ValueError", what |-> "[ConfigError] " \o what,
     section |-> it.section, item |-> it.item_name, raw |-> v.v]

\* A ValueError raised inside configparser: its message holds the text only.
ParserError(what, v) ==
    [type |-> "ValueError", what |-> what, section |-> "", item |-> "", raw |-> v.v]

\* RawConfigParser.getint: int(self.get(section, option))
ParserGetInt(v) ==
    IF CanInt(v) THEN Returned(IntOf(v))
    ELSE Raised(ParserError("invalid literal for int() with base 10", v))

\* RawConfigParser.getfloat
ParserGetFloat(v) ==
    IF CanFloat(v) THEN Returned(FloatOf(v))
    ELSE Raised(ParserError("could not convert string to float", v))

\* RawConfigParser.getboolean: BOOLEAN_STATES[value.lower()]
ParserGetBoolean(v) ==
    IF Lower(v.v) \in TrueStrings THEN Returned(True)
    ELSE IF Lower(v.v) \in FalseStrings THEN Returned(False)
    ELSE Raised(ParserError("Not a boolean", v))

\* The getter each reader hands to _lookup_value; RawConfigParser.get
\* returns the text.
FileGetter(t, v) ==
    CASE t = "string" -> Returned(v)
      [] t \in {"int", "uint"} -> ParserGetInt(v)
      [] t = "float" -> ParserGetFloat(v)
      [] t = "bool" -> ParserGetBoolean(v)

\* A lookup that asks the file before the environment.
LookupValue_FileFirst(it, has_file) ==
    IF has_file /\ it.file # NoneV THEN FileGetter(it.item_type, it.file)
    ELSE IF it.env # NoneV THEN Returned(it.env)
    ELSE Returned(it.default_value)

\* _lookup_value with the file getter of the item's reader
LookupValue(it, has_file) ==
    IF it.env # NoneV THEN Returned(it.env)
    ELSE IF has_file /\ it.file # NoneV THEN
        LET r == FileGetter(it.item_type, it.file)
        IN  IF r.ok THEN Returned(r.value) ELSE r
    ELSE Returned(it.default_value)

\* A resolver that lets a required item resolve to None.
EnsureRequired_Never(it, v) ==
    Returned(v)

\* _ensure_required
EnsureRequired(it, v) ==
    IF v = NoneV /\ it.is_required THEN Raised(ConfigError("Missing required", it, v))
    ELSE Returned(v)

\* _read_str, on a candidate
ReadStr(it, v) ==
    IF v = NoneV THEN Returned(v)
    ELSE IF it.restricted /\ ~(v.t = "str" /\ v.v \in ValidValues)
         THEN Raised(ConfigError("has invalid value", it, v))
    ELSE Returned(Str(v.v))

\* _read_int, on a candidate
ReadInt(it, v) ==
    IF v = NoneV THEN Returned(v)
    ELSE IF CanInt(v) THEN Returned(IntOf(v))
    ELSE Raised(ConfigError("has invalid int", it, v))

\* A boolean reader that compares the string without stripping it.
ReadBool_NoStrip(it, v) ==
    IF v = NoneV THEN Returned(v)
    ELSE IF v.t = "bool" THEN Returned(v)
    ELSE IF v.t = "str" /\ Lower(v.v) \in TrueStrings THEN Returned(True)
    ELSE IF v.t = "str" /\ Lower(v.v) \in FalseStrings THEN Returned(False)
    ELSE Raised(ConfigError("has invalid boolean", it, v))

\* _read_bool, on a candidate
ReadBool(it, v) ==
    IF v = NoneV THEN Returned(v)
    ELSE IF v.t = "bool" THEN Returned(v)
    ELSE IF v.t = "str" /\ Lower(Strip(v.v)) \in TrueStrings THEN Returned(True)
    ELSE IF v.t = "str" /\ Lower(Strip(v.v)) \in FalseStrings THEN Returned(False)
    ELSE Raised(ConfigError("has invalid boolean", it, v))

\* _read_float, on a candidate
ReadFloat(it, v) ==
    IF v = NoneV THEN Returned(v)
    ELSE IF CanFloat(v) THEN Returned(FloatOf(v))
    ELSE Raised(ConfigError("has invalid float", it, v))

\* _read_uint: _read_int, and no negative value
ReadUint(it, v) ==
    LET r == ReadInt(it, v)
    IN  IF ~r.ok \/ r.value = NoneV THEN r
        ELSE IF Negative(r.value) THEN Raised(ConfigError("has invalid unsigned int", it, r.value))
        ELSE r

\* self._readers[item.item_type](section, item): _lookup_value, then
\* _ensure_required, then the coercion of the reader
Reader(it, has_file) ==
    LET l == LookupValue(it, has_file)
        c == IF l.ok THEN EnsureRequired(it, l.value) ELSE l
    IN  IF ~c.ok THEN c
        ELSE CASE it.item_type = "string" -> ReadStr(it, c.value)
               [] it.item_type = "int" -> ReadInt(it, c.value)
               [] it.item_type = "bool" -> ReadBool(it, c.value)
               [] it.item_type = "float" -> ReadFloat(it, c.value)
               [] it.item_type = "uint" -> ReadUint(it, c.value)

\* get_entry(section, item) for the item at position k of the layout
GetEntry(k) ==
    IF k \in 1 .. MaxItems /\ config_items[k] # Unset THEN Returned(config_items[k])
    ELSE Raised([type |-> "ValueError", what |-> "[ConfigError] Invalid key",
                 section |-> SectionOf(k), item |-> ItemName(k), raw |-> ""])

\* What ConfigParser.read raises for a file it opened and cannot parse: a
\* ParsingError (MissingSectionHeaderError is one), or, the parser being
\* strict, a DuplicateSectionError (or DuplicateOptionError), which is a
\* configparser.Error but not a ParsingError.
ReadErrors == {"ParsingError", "DuplicateSectionError"}

\* Configuration() and configure(layout, config_file, file_required)
Configure ==
    /\ cpc = "unused"
    /\ \E n \in 0 .. MaxItems, path \in BOOLEAN, req \in BOOLEAN :
          /\ layout_len' = n
          /\ config_file' = path
          /\ config_file_required' = req
          /\ file_status' \in (IF path THEN {"readable", "unopenable"} \cup ReadErrors ELSE {"none"})
    /\ cpc' = "configured"
    /\ UNCHANGED <<has_config_file, cfg_index, cur, config_items, cfg_error, got>>
    /\ UNCHANGED <<lifeVars, ctrlVars, histVars, hookVars, bootVars, reqVars, healthVars, appVars, acctVars>>

\* A process_config() that goes on without the required file.
ProcessConfig_IgnoresRequired ==
    /\ cpc = "configured"
    /\ IF config_file /\ file_status \in ReadErrors THEN
            /\ cpc' = "failed"
            /\ cfg_error' = [type |-> "ValueError", what |-> "[ConfigError] Failed to parse file",
                             section |-> "", item |-> "", raw |-> ""]
            /\ UNCHANGED has_config_file
       ELSE /\ has_config_file' = (config_file /\ file_status = "readable")
            /\ cpc' = IF layout_len = 0 THEN "done" ELSE "reading"
            /\ UNCHANGED cfg_error
    /\ UNCHANGED <<config_file, config_file_required, file_status, layout_len, cfg_index, cur, config_items, got>>
    /\ UNCHANGED <<lifeVars, ctrlVars, histVars, hookVars, bootVars, reqVars, healthVars, appVars, acctVars>>

\* process_config(), up to the call of _read_configuration.  Only
\* ParsingError is caught around parser.read; any other error it raises
\* leaves process_config as it is.
ProcessConfig ==
    /\ cpc = "configured"
    /\ IF config_file /\ file_status = "ParsingError" THEN
            /\ cpc' = "failed"
            /\ cfg_error' = [type |-> "ValueError", what |-> "[ConfigError] Failed to parse file",
                             section |-> "", item |-> "", raw |-> ""]
            /\ UNCHANGED has_config_file
       ELSE IF config_file /\ file_status = "DuplicateSectionError" THEN
            /\ cpc' = "failed"
            /\ cfg_error' = [type |-> "DuplicateSectionError", what |-> "While reading from file: section already exists",
                             section |-> "", item |-> "", raw |-> ""]
            /\ UNCHANGED has_config_file
       ELSE IF config_file /\ file_status # "readable" /\ config_file_required THEN
            /\ cpc' = "failed"
            /\ cfg_error' = [type |-> "ValueError", what |-> "[ConfigError] Required config file could not be opened",
                             section |-> "", item |-> "", raw |-> ""]
            /\ UNCHANGED has_config_file
       ELSE /\ has_config_file' = (config_file /\ file_status = "readable")
            /\ cpc' = IF layout_len = 0 THEN "done" ELSE "reading"
            /\ UNCHANGED cfg_error
    /\ UNCHANGED <<config_file, config_file_required, file_status, layout_len, cfg_index, cur, config_items, got>>
    /\ UNCHANGED <<lifeVars, ctrlVars, histVars, hookVars, bootVars, reqVars, healthVars, appVars, acctVars>>

\* The loop of _read_configuration goes on to the next item.
NextItem ==
    /\ cpc = "read"
    /\ cpc' = "reading"
    /\ cur' = NoItem
    /\ UNCHANGED <<config_file, config_file_required, file_status, has_config_file,
                   layout_len, cfg_index, config_items, cfg_error, got>>
    /\ UNCHANGED <<lifeVars, ctrlVars, histVars, hookVars, bootVars, reqVars, healthVars, appVars, acctVars>>

\* One turn of the loop of _read_configuration: the item it is at, whatever
\* it declares and whatever the environment and the file hold for it.
ReadItem ==
    /\ cpc = "reading"
    /\ \E t \in ItemTypes, req \in BOOLEAN, d \in Defaults, e \in EnvValues,
          f \in (IF has_config_file THEN FileValues ELSE {NoneV}) :
       \E vv \in (IF t = "string" THEN BOOLEAN ELSE {FALSE}) :
          LET k == cfg_index + 1
              it == [index |-> k, section |-> SectionOf(k), item_name |-> ItemName(k),
                     env_var |-> (IF k = 1 THEN "LOGGING" ELSE "DATABASE") \o "_ITEM" \o ToString(k),
                     item_type |-> t, is_required |-> req,
                     restricted |-> vv, default_value |-> d, env |-> e, file |-> f]
              r == Reader(it, has_config_file)
          IN  /\ cur' = it
              /\ IF r.ok THEN
                      /\ config_items' = [config_items EXCEPT ![k] = r.value]
                      /\ cfg_index' = k
                      /\ cpc' = IF k = layout_len THEN "done" ELSE "read"
                      /\ UNCHANGED cfg_error
                 ELSE /\ cfg_error' = r.error
                      /\ cpc' = "failed"
                      /\ UNCHANGED <<config_items, cfg_index>>
    /\ UNCHANGED <<config_file, config_file_required, file_status, has_config_file, layout_len, got>>
    /\ UNCHANGED <<lifeVars, ctrlVars, histVars, hookVars, bootVars, reqVars, healthVars, appVars, acctVars>>

\* A get_entry call once process_config has returned or raised; the loop
\* variables of _read_configuration are gone by then.
GetEntryCall ==
    /\ cpc \in {"done", "failed"}
    /\ got = NoGot
    /\ \E k \in 1 .. MaxItems + 1 :
          got' = [key |-> k, result |-> GetEntry(k).value, error |-> GetEntry(k).error]
    /\ cur' = NoItem
    /\ UNCHANGED <<cpc, config_file, config_file_required, file_status, has_config_file,
                   layout_len, cfg_index, config_items, cfg_error>>
    /\ UNCHANGED <<lifeVars, ctrlVars, histVars, hookVars, bootVars, reqVars, healthVars, appVars, acctVars>>

ConfigNext == Configure \/ ProcessConfig \/ ReadItem \/ NextItem \/ GetEntryCall

ConfigSpec == LifecycleStart /\ [][ConfigNext]_vars


-----------------------------------------------------------------------------
(* Properties of the configuration resolver *)

\* The loop of _read_configuration has just gone through an item.
ItemRead == cur.index > 0 /\ cpc \in {"read", "done", "failed"}

\* How the reader of that item ended.
ItemOutcome ==
    IF cpc = "failed" THEN Raised(cfg_error) ELSE Returned(config_items[cur.index])

\* The file holds a value for that item.
FileProvides == has_config_file /\ cur.file # NoneV

\* C25: the resolved value of an item comes from the first source that
\* provides one, in the order environment variable, config file that was
\* read, default of the layout: what the sources after that one hold has no
\* influence on how the item resolves, and a string item that both the
\* environment and the file define resolves to the environment's value.
C25_EnvThenFileThenDefault ==
    ItemRead =>
        /\ (cur.env # NoneV) =>
              ItemOutcome = Reader([cur EXCEPT !.file = NoneV, !.default_value = NoneV], FALSE)
        /\ (cur.env = NoneV /\ FileProvides) =>
              ItemOutcome = Reader([cur EXCEPT !.default_value = NoneV], TRUE)
        /\ (cur.env = NoneV /\ ~FileProvides) =>
              ItemOutcome = Reader([cur EXCEPT !.file = NoneV], FALSE)
        /\ (cur.env # NoneV /\ cur.item_type = "string" /\ ~cur.restricted) =>
              (cpc # "failed" /\ config_items[cur.index] = cur.env)

C25_Witness ==
    /\ ItemRead /\ cpc # "failed"
    /\ cur.item_type = "string"
    /\ cur.env # NoneV /\ FileProvides /\ cur.file # cur.env
    /\ cur.default_value # NoneV
    /\ config_items[cur.index] = cur.env

\* The candidate of the item read: the first source that holds a value.
CandidateValue ==
    IF cur.env # NoneV THEN cur.env
    ELSE IF FileProvides THEN cur.file
    ELSE cur.default_value

\* process_config raised the missing-required error for the item read.
MissingRequiredRaised ==
    /\ cpc = "failed"
    /\ cfg_error.type = "ValueError"
    /\ cfg_error.what = "[ConfigError] Missing required"
    /\ cfg_error.section = SectionOf(cur.index)
    /\ cfg_error.item = ItemName(cur.index)

\* C26: a required item of any type with no environment variable, no file
\* value and no default makes process_config raise an error that names that
\* item as section::item.
C26_MissingRequiredNamed ==
    (ItemRead /\ cur.is_required /\ CandidateValue = NoneV) => MissingRequiredRaised

C26_Witness ==
    /\ ItemRead /\ cur.is_required /\ CandidateValue = NoneV
    /\ cur.item_type = "uint" /\ cur.index = MaxItems
    /\ MissingRequiredRaised

\* C27: a required item whose only candidate is the default of the layout
\* makes process_config raise the missing-required error.
C27_DefaultIgnored ==
    (ItemRead /\ cur.is_required /\ cur.env = NoneV /\ ~FileProvides /\ cur.default_value # NoneV)
        => MissingRequiredRaised

\* The environment or the file supplied a string for the item read.
StringSupplied == ItemRead /\ (cur.env # NoneV \/ FileProvides)

C29_ParseErrorNamesItem ==
    (ItemRead /\ cpc = "failed" /\ cur.item_type \in {"int", "uint", "float", "bool"}
        /\ CandidateValue # NoneV) =>
        /\ cfg_error.type = "ValueError"
        /\ cfg_error.section = SectionOf(cur.index)
        /\ cfg_error.item = ItemName(cur.index)
        /\ cfg_error.raw = CandidateValue.v

\* C30: once process_config has failed, get_entry fails for every key.
C30_NoPartialResolution ==
    (cpc = "failed" /\ got # NoGot) => got.error # NoError


\* process_config has been called.
Processed == cpc \notin {"unused", "configured"}

\* No item has been resolved or stored.
NothingStored == cfg_index = 0 /\ cur = NoItem /\ \A k \in 1 .. MaxItems : config_items[k] = Unset

\* C31: with a path given and a file that cannot be opened, process_config
\* raises a configuration error before any item is resolved when the file
\* is required; when it is not required no error is raised for the file and
\* every item resolves as it does from the environment and the default.
C31_FileRequiredPolicy ==
    (Processed /\ config_file /\ file_status = "unopenable") =>
        IF config_file_required
        THEN /\ cpc = "failed" /\ NothingStored
             /\ cfg_error.type = "ValueError"
             /\ cfg_error.what = "[ConfigError] Required config file could not be opened"
        ELSE /\ ~has_config_file
             /\ cfg_error.what \notin {"[ConfigError] Required config file could not be opened",
                                       "[ConfigError] Failed to parse file"}
             /\ ItemRead => (/\ cur.file = NoneV
                             /\ ItemOutcome = Reader([cur EXCEPT !.file = NoneV], FALSE))

C31_Witness ==
    /\ Processed /\ config_file /\ file_status = "unopenable" /\ config_file_required
    /\ layout_len = MaxItems
    /\ cpc = "failed" /\ NothingStored

\* The other half of the case: the file is not required and an item resolved
\* from its default.
C31_WitnessOptional ==
    /\ Processed /\ config_file /\ file_status = "unopenable" /\ ~config_file_required
    /\ ItemRead /\ cur.env = NoneV /\ cur.default_value # NoneV
    /\ ItemOutcome = Returned(cur.default_value)

\* C40: a file that is opened and cannot be parsed makes process_config
\* raise a configuration error before any item is resolved, whether the
\* file is required or not.
C40_UnparsableFileFails ==
    (Processed /\ config_file /\ file_status \in ReadErrors) =>
        /\ cpc = "failed" /\ NothingStored
        /\ cfg_error.type = "ValueError"
        /\ cfg_error.what = "[ConfigError] Failed to parse file"


-----------------------------------------------------------------------------
(* Signup and login: AuthApiView.signup_password over                      *)
(* UserDataService.signup_with_password, UserDataAccessLayer.create_user   *)
(* called on its own, and AuthApiView.login_password, against the users    *)
(* table.  Each request has its own connection; a statement takes effect   *)
(* when its await ends, and an exception no handler catches is answered    *)
(* 500 by the framework.                                                   *)

SignupBodies == {"ok", "invalid_fields", "none"}

LoginBodies == {"ok", "invalid_fields", "none", "empty", "not_object"}

\* usernames and emails of the accounts asked for
NewNames == {"alice", "eve"}

NewEmails == {"a@x", "e@x"}

\* username_or_email and password of a login
Identifiers == {"alice", "a@x", "bob", "dan", "zed"}

Passwords == {"pw1", "pw2"}

\* WHERE username = $1 OR email = $2
Existing(username, email) == {u \in users : u.username = username \/ u.email = email}

\* WHERE username = $1 OR email = $1
Matching(identifier) == Existing(identifier, identifier)

\* How a fetchrow ends that has the rows found to choose from.
FetchOutcomes(found) == (IF found = {} THEN {"no_row"} ELSE {"row"}) \cup StoreExceptions

\* The except clause an exception of the store is caught by:
\* UniqueViolationError is a PostgresError.
Caught(o) == IF o = "UniqueViolationError" THEN "PostgresError" ELSE o

\* Both fields of an update are assigned with no await between them.
Apply(u) ==
    /\ IF u = NoUpd THEN UNCHANGED stateVars
       ELSE IF u.comp = "database"
       THEN /\ database_health' = u.level /\ database_health_state_str' = u.detail
            /\ UNCHANGED <<service_health, service_health_state_str>>
       ELSE /\ service_health' = u.level /\ service_health_state_str' = u.detail
            /\ UNCHANGED <<database_health, database_health_state_str>>
    /\ UNCHANGED <<op, opc, upd, cont, stamp, updates, seen, store_outcome, before, ret>>

\* The coroutine ends with the given answer.
Answer(c, st, txt) == [c EXCEPT !.pc = "done", !.status = st, !.text = txt]

\* Coroutine h is given its request once the one before it has its own.
Receives(h) ==
    /\ CanRun(Coroutine(h)) /\ running = "none"
    /\ acct[h].pc = "idle"
    /\ IF h = 1 THEN TRUE ELSE acct[h - 1].pc # "idle"

\* signup_password: data = await get_json(); PasswordSignupRequest(**data),
\* which is a TypeError for data = None; then signup_with_password up to
\* the fetchrow of check_user_exists
SignupBegin(h) ==
    /\ Receives(h)
    /\ \E b \in SignupBodies, n \in NewNames, e \in NewEmails :
          acct' = [acct EXCEPT ![h] =
                      CASE b = "none" ->
                              Answer([@ EXCEPT !.kind = "signup", !.body = b], "500", "TypeError")
                        [] b = "invalid_fields" ->
                              Answer([@ EXCEPT !.kind = "signup", !.body = b], "400", "ValidationError")
                        [] OTHER ->
                              [@ EXCEPT !.kind = "signup", !.body = b, !.name = n, !.email = e,
                                        !.password = "pw1", !.pc = "signup_check"]]
    /\ UNCHANGED <<users, next_id>>
    /\ UNCHANGED healthVars
    /\ UNCHANGED <<lifeVars, ctrlVars, histVars, hookVars, bootVars, reqVars, confVars, appVars>>

\* signup_with_password: check_user_exists returns; 409 for a row, else
\* bcrypt.hash and create_user(..., state_object=...), a keyword create_user
\* does not have: the call raises TypeError and nothing catches it
SignupChecked(h) ==
    /\ CanRun(Coroutine(h)) /\ running = "none"
    /\ acct[h].pc = "signup_check"
    /\ \E o \in FetchOutcomes(Existing(acct[h].name, acct[h].email)) :
          /\ Apply(CheckUpdate(o))
          /\ acct' = [acct EXCEPT ![h] =
                        IF o = "row"
                        THEN Answer([@ EXCEPT !.chk = o], "409", "User already exists")
                        ELSE Answer([@ EXCEPT !.chk = o], "500", "TypeError")]
    /\ UNCHANGED <<users, next_id>>
    /\ UNCHANGED <<lifeVars, ctrlVars, histVars, hookVars, bootVars, reqVars, confVars, appVars>>

\* create_user: user_id = uuid.uuid4(); the transaction is entered (or
\* fails); the health is marked operational; check_user_exists is awaited
CreateUserCall(h) ==
    /\ Receives(h)
    /\ \E n \in NewNames, e \in NewEmails, o \in StoreOutcomes \ {"row"} :
          /\ next_id' = next_id + 1
          /\ IF o = "no_row"
             THEN /\ Apply(Operational("Database operational"))
                  /\ acct' = [acct EXCEPT ![h] =
                                [@ EXCEPT !.kind = "create_user", !.body = "ok", !.name = n, !.email = e,
                                          !.password = "pw1", !.uid = next_id, !.pc = "create_check"]]
             ELSE /\ Apply(CreateUpdate(o))
                  /\ acct' = [acct EXCEPT ![h] =
                                Answer([@ EXCEPT !.kind = "create_user", !.body = "ok", !.name = n, !.email = e,
                                                 !.password = "pw1", !.uid = next_id, !.ins = o],
                                       "None", "")]
    /\ UNCHANGED users
    /\ UNCHANGED <<lifeVars, ctrlVars, histVars, hookVars, bootVars, reqVars, confVars, appVars>>

\* create_user: existing = await self.check_user_exists(...) ends
CreateChecked(h) ==
    /\ CanRun(Coroutine(h)) /\ running = "none"
    /\ acct[h].pc = "create_check"
    /\ \E o \in FetchOutcomes(Existing(acct[h].name, acct[h].email)) :
          /\ Apply(CheckUpdate(o))
          /\ acct' = [acct EXCEPT ![h] =
                        IF o = "row"
                        THEN Answer([@ EXCEPT !.chk = o], "None", "duplicate")
                        ELSE [@ EXCEPT !.chk = o, !.pc = "create_insert"]]
    /\ UNCHANGED <<users, next_id>>
    /\ UNCHANGED <<lifeVars, ctrlVars, histVars, hookVars, bootVars, reqVars, confVars, appVars>>

\* The row create_user inserts.
NewRow(c) ==
    [id |-> c.uid, username |-> c.name, email |-> c.email, password_hash |-> Hash(c.password),
     is_active |-> TRUE, is_verified |-> FALSE, last_login |-> 0]

\* How the INSERT of create_user ends: after a failed statement or a lost
\* connection it fails; a row with the same username or email makes it a
\* UniqueViolationError (database/user.py: unique=True).
InsertOutcomes(c) ==
    IF c.chk \in {"PostgresError", "PostgresConnectionError"} THEN StoreExceptions
    ELSE IF Existing(c.name, c.email) # {} THEN {"UniqueViolationError"} \cup StoreExceptions
    ELSE {"no_row"} \cup StoreExceptions

\* create_user: await self._db.execute(INSERT ...) ends and the transaction
\* is left
CreateInserted(h) ==
    /\ CanRun(Coroutine(h)) /\ running = "none"
    /\ acct[h].pc = "create_insert"
    /\ \E o \in InsertOutcomes(acct[h]) :
          /\ Apply(CreateUpdate(Caught(o)))
          /\ users' = IF o = "no_row" THEN users \cup {NewRow(acct[h])} ELSE users
          /\ acct' = [acct EXCEPT ![h] =
                        IF o = "no_row"
                        THEN Answer([@ EXCEPT !.ins = o, !.writes = @ + 1], "user_id", "")
                        ELSE Answer([@ EXCEPT !.ins = o], "None", "")]
    /\ UNCHANGED next_id
    /\ UNCHANGED <<lifeVars, ctrlVars, histVars, hookVars, bootVars, reqVars, confVars, appVars>>

\* login_password: data = await get_json(); if not data: 400;
\* PasswordLoginRequest(**data), which is a TypeError for a body that is no
\* JSON object; then up to the fetchrow
LoginBegin(h) ==
    /\ Receives(h)
    /\ \E b \in LoginBodies, n \in Identifiers, p \in Passwords :
          acct' = [acct EXCEPT ![h] =
                      CASE b \in {"none", "empty"} ->
                              Answer([@ EXCEPT !.kind = "login", !.body = b], "400", "Invalid or missing JSON body")
                        [] b = "not_object" ->
                              Answer([@ EXCEPT !.kind = "login", !.body = b], "500", "TypeError")
                        [] b = "invalid_fields" ->
                              Answer([@ EXCEPT !.kind = "login", !.body = b], "400", "ValidationError")
                        [] OTHER ->
                              [@ EXCEPT !.kind = "login", !.body = b, !.name = n, !.password = p,
                                        !.pc = "login_fetch"]]
    /\ UNCHANGED <<users, next_id>>
    /\ UNCHANGED healthVars
    /\ UNCHANGED <<lifeVars, ctrlVars, histVars, hookVars, bootVars, reqVars, confVars, appVars>>

\* What login_password does with the row fetchrow returned.
Judged(c, u) ==
    IF ~u.is_active THEN Answer([c EXCEPT !.row = u], "403", "Account disabled")
    ELSE IF u.password_hash = "" \/ ~Verify(c.password, u.password_hash)
    THEN Answer([c EXCEPT !.row = u], "401", "Invalid credentials")
    ELSE [c EXCEPT !.row = u, !.pc = "login_update"]

\* A login_password that updates last_login as soon as it has the row.
LoginFetched_UpdatesFirst(h) ==
    /\ CanRun(Coroutine(h)) /\ running = "none"
    /\ acct[h].pc = "login_fetch"
    /\ \E o \in FetchOutcomes(Matching(acct[h].name)) :
          CASE o = "no_row" ->
                  /\ acct' = [acct EXCEPT ![h] = Answer([@ EXCEPT !.chk = o], "401", "Invalid credentials")]
                  /\ UNCHANGED users
            [] o = "row" ->
                  \E u \in Matching(acct[h].name) :
                      /\ acct' = [acct EXCEPT ![h] =
                                    Judged([@ EXCEPT !.chk = o, !.cands = Matching(acct[h].name), !.writes = @ + 1], u)]
                      /\ users' = {IF v.id = u.id THEN [v EXCEPT !.last_login = @ + 1] ELSE v : v \in users}
            [] OTHER ->
                  /\ acct' = [acct EXCEPT ![h] = Answer([@ EXCEPT !.chk = o], "500", o)]
                  /\ UNCHANGED users
    /\ UNCHANGED next_id
    /\ UNCHANGED healthVars
    /\ UNCHANGED <<lifeVars, ctrlVars, histVars, hookVars, bootVars, reqVars, confVars, appVars>>

\* login_password: user = await quart.g.db.fetchrow(...) ends, with one of
\* the rows that match; 401 without a row, 403 for a disabled account, 401
\* for a missing or wrong password, else on to the UPDATE
LoginFetched(h) ==
    /\ CanRun(Coroutine(h)) /\ running = "none"
    /\ acct[h].pc = "login_fetch"
    /\ \E o \in FetchOutcomes(Matching(acct[h].name)) :
          CASE o = "no_row" ->
                  acct' = [acct EXCEPT ![h] = Answer([@ EXCEPT !.chk = o], "401", "Invalid credentials")]
            [] o = "row" ->
                  \E u \in Matching(acct[h].name) :
                      acct' = [acct EXCEPT ![h] =
                                  Judged([@ EXCEPT !.chk = o, !.cands = Matching(acct[h].name)], u)]
            [] OTHER ->
                  acct' = [acct EXCEPT ![h] = Answer([@ EXCEPT !.chk = o], "500", o)]
    /\ UNCHANGED <<users, next_id>>
    /\ UNCHANGED healthVars
    /\ UNCHANGED <<lifeVars, ctrlVars, histVars, hookVars, bootVars, reqVars, confVars, appVars>>

\* The user a 200 names: str(user["id"]) and the columns of the row.
OutOf(u) ==
    [user_id |-> ToString(u.id), username |-> u.username, email |-> u.email,
     is_verified |-> u.is_verified]

\* UPDATE users SET last_login=$1 WHERE id=$2
Touched(rows, id) ==
    {IF v.id = id THEN [v EXCEPT !.last_login = @ + 1] ELSE v : v \in rows}

\* login_password: await quart.g.db.execute(UPDATE ...) ends; 200
LoginUpdated(h) ==
    /\ CanRun(Coroutine(h)) /\ running = "none"
    /\ acct[h].pc = "login_update"
    /\ \E o \in {"ok"} \cup StoreExceptions :
          IF o = "ok"
          THEN /\ users' = Touched(users, acct[h].row.id)
               /\ acct' = [acct EXCEPT ![h] =
                             Answer([@ EXCEPT !.ins = o, !.writes = @ + 1, !.out = OutOf(acct[h].row)],
                                    "200", "Login successful")]
          ELSE /\ acct' = [acct EXCEPT ![h] = Answer([@ EXCEPT !.ins = o], "500", o)]
               /\ UNCHANGED users
    /\ UNCHANGED next_id
    /\ UNCHANGED healthVars
    /\ UNCHANGED <<lifeVars, ctrlVars, histVars, hookVars, bootVars, reqVars, confVars, appVars>>

LoginNext ==
    \E h \in Reqs : LoginBegin(h) \/ LoginFetched(h) \/ LoginUpdated(h)

SignupNext ==
    \E h \in Reqs :
        \/ SignupBegin(h) \/ SignupChecked(h)
        \/ CreateUserCall(h) \/ CreateChecked(h) \/ CreateInserted(h)

AccountNext == SignupNext \/ LoginNext

\* The users table as the service finds it: empty, with the first two rows,
\* or with all of them.
InitialStores ==
    {{u \in StoredRows : u.id <= 2 * k} : k \in 0 .. (Cardinality(StoredRows) \div 2)}

AccountStart ==
    /\ ServiceUp
    /\ NoRequests /\ HealthInit /\ NoConfig /\ NoCalls
    /\ users \in InitialStores

\* Signups and logins on the running service
AccountSpec == AccountStart /\ [][AccountNext]_vars

\* Logins alone
LoginSpec == AccountStart /\ [][LoginNext]_vars

-----------------------------------------------------------------------------
(* Properties of signup and login *)

\* The store call of a finished request that raised, if one did.
StoreFailed(c) == c.chk \in StoreExceptions \/ c.ins \in StoreExceptions

\* The login of coroutine h has been answered.
LoginDone(h) == acct[h].kind = "login" /\ acct[h].pc = "done"

\* C32: a password signup whose username and email match no stored user is
\* answered 201 with the new user_id and the username and email given, and
\* the user is stored; a signup whose username or email is stored is
\* answered 409 'User already exists' and leaves the store unchanged.
C32_SignupCreatesOrConflicts ==
    /\ [](\A h \in Reqs :
            (acct[h].kind = "signup" /\ acct[h].pc = "done" /\ acct[h].body = "ok") =>
                (/\ acct[h].chk = "row" =>
                        (acct[h].status = "409" /\ acct[h].text = "User already exists")
                 /\ acct[h].chk = "no_row" =>
                        (/\ acct[h].status = "201"
                         /\ acct[h].out.username = acct[h].name /\ acct[h].out.email = acct[h].email
                         /\ \E u \in users : /\ u.username = acct[h].name /\ u.email = acct[h].email
                                              /\ ToString(u.id) = acct[h].out.user_id)))
    /\ [][\A h \in Reqs :
            (acct[h].pc = "signup_check" /\ acct'[h].status = "409") => users' = users]_vars

\* The conflict half alone.
C32_ConflictLeavesStore ==
    /\ [](\A h \in Reqs :
            (acct[h].kind = "signup" /\ acct[h].pc = "done" /\ acct[h].chk = "row") =>
                (acct[h].status = "409" /\ acct[h].text = "User already exists"))
    /\ [][\A h \in Reqs :
            (acct[h].kind = "signup" /\ acct'[h] # acct[h]) => users' = users]_vars

\* A coroutine whose create_user (or signup) reported a created user.
Created(h) == acct[h].pc = "done" /\ acct[h].status \in {"201", "user_id"}

\* Coroutine h passed the existence check, another request inserted the
\* same username or email since, and h's own INSERT is rejected for it.
LosesRace(h) ==
    /\ acct[h].pc = "create_insert" /\ acct[h].chk = "no_row"
    /\ Existing(acct[h].name, acct[h].email) # {}
    /\ acct'[h].ins = "UniqueViolationError"

\* C37: when two requests for the same username or email both pass the
\* existence check before either inserts, at most one reports a created
\* user, at most one row with that username or email exists, and the
\* losing request leaves the database and service health levels unchanged.
C37_DuplicateRaceIsDomainError ==
    /\ [](Unique(users))
    /\ [](\A g, h \in Reqs :
            (g # h /\ Created(g) /\ Created(h)) =>
                (acct[g].name # acct[h].name /\ acct[g].email # acct[h].email))
    /\ [][\A h \in Reqs :
            LosesRace(h) => (/\ users' = users
                             /\ database_health' = database_health
                             /\ service_health' = service_health)]_vars

\* The store half of the race alone.
C37_AtMostOneRow ==
    /\ [](Unique(users))
    /\ [](\A g, h \in Reqs :
            (g # h /\ Created(g) /\ Created(h)) =>
                (acct[g].name # acct[h].name /\ acct[g].email # acct[h].email))
    /\ [][\A h \in Reqs : LosesRace(h) => users' = users]_vars

\* The row passes the checks of login_password for the password given.
Eligible(u, p) == u.is_active /\ u.password_hash # "" /\ Verify(p, u.password_hash)

\* C33: a login is answered 200 'Login successful' with the stored
\* user_id, username, email and is_verified exactly when the identifier
\* matches a stored user that is active and whose hash verifies the
\* password; 401 when no user matches or the password does not verify; 403
\* when the matching account is inactive; 400 when the body is missing or
\* malformed.
C33_LoginOutcome ==
    \A h \in Reqs :
        (LoginDone(h) /\ ~StoreFailed(acct[h])) =>
            IF acct[h].body # "ok" THEN acct[h].status = "400"
            ELSE /\ acct[h].status \in {"200", "401", "403"}
                 /\ acct[h].status = "200" <=> (\E u \in acct[h].cands : Eligible(u, acct[h].password))
                 /\ acct[h].status = "200" =>
                        (/\ acct[h].text = "Login successful"
                         /\ \E u \in acct[h].cands : Eligible(u, acct[h].password) /\ acct[h].out = OutOf(u))
                 /\ acct[h].status = "403" => (\E u \in acct[h].cands : ~u.is_active)
                 /\ acct[h].status = "401" =>
                        (\/ acct[h].cands = {}
                         \/ \E u \in acct[h].cands : ~Verify(acct[h].password, u.password_hash))

\* The same for a body that is absent or a JSON object and an identifier
\* that matches at most one user.
C33_ObjectBodyOneMatch ==
    \A h \in Reqs :
        (/\ LoginDone(h) /\ ~StoreFailed(acct[h])
         /\ acct[h].body # "not_object" /\ Cardinality(acct[h].cands) <= 1) =>
            IF acct[h].body # "ok" THEN acct[h].status = "400"
            ELSE /\ acct[h].status \in {"200", "401", "403"}
                 /\ acct[h].status = "200" <=> (\E u \in acct[h].cands : Eligible(u, acct[h].password))
                 /\ acct[h].status = "200" =>
                        (/\ acct[h].text = "Login successful"
                         /\ \E u \in acct[h].cands : acct[h].out = OutOf(u))
                 /\ acct[h].status = "403" => (\E u \in acct[h].cands : ~u.is_active)

\* C39: only a successful login writes to the store: the last_login update
\* is executed once, on the 200 path and after all checks have passed, and
\* a login answered 400, 401 or 403 executes no write and leaves the users
\* as they are.
C39_OnlySuccessfulLoginWrites ==
    /\ [](\A h \in Reqs :
            acct[h].kind = "login" =>
                (/\ acct[h].writes = IF acct[h].status = "200" THEN 1 ELSE 0
                 /\ (acct[h].pc = "login_update" \/ acct[h].status = "200") =>
                        (/\ acct[h].body = "ok" /\ acct[h].row \in acct[h].cands
                         /\ Eligible(acct[h].row, acct[h].password))))
    /\ [][\A h \in Reqs :
            ((acct[h].kind = "login" \/ acct'[h].kind = "login") /\ acct'[h] # acct[h]) =>
                users' = IF acct'[h].status = "200" THEN Touched(users, acct[h].row.id) ELSE users]_vars

C39_Witness ==
    \E g, h \in Reqs :
        /\ LoginDone(g) /\ acct[g].status = "200" /\ acct[g].writes = 1
        /\ \E u \in users : u.id = acct[g].row.id /\ u.last_login = 1
        /\ LoginDone(h) /\ acct[h].status = "403" /\ acct[h].writes = 0
        /\ \E u \in users : u.id = acct[h].row.id /\ u.last_login = 0

=============================================================================
